---- MODULE Spec2Model ----
(***************************************************************************)
(* Model of the gotradebot supervisor core.                                *)
(*                                                                         *)
(* Part 1: the connectivity monitor subsystem (engine/connection_manager)  *)
(* driven by a set of goroutines that call Start, Stop, IsRunning and      *)
(* IsOnline on one shared *connectionManager handle.  Every access to the  *)
(* shared fields (started, conn) is one step, so that every interleaving   *)
(* the Go memory model admits between the calls is explored.               *)
(***************************************************************************)
EXTENDS Integers, Naturals, Sequences, FiniteSets, TLC

\* ------------------------------------------------------------------ bounds
\* number of goroutines that call into the subsystem
NumThreads == 3
\* total number of Start/Stop calls issued in one behaviour
MaxCalls == 3

Threads == 1..NumThreads

\* goroutines that call Engine.Start and Engine.Stop
NumCallers == 2
\* Engine.Start/Engine.Stop calls issued in one behaviour
MaxPasses == 3
Callers == 1..NumCallers

\* ------------------------------------------------------- values and errors
ErrSubSystemAlreadyStarted == "ErrSubSystemAlreadyStarted"
ErrSubSystemNotStarted == "ErrSubSystemNotStarted"
ErrNilSubsystem == "ErrNilSubsystem"
errNilConfig == "errNilConfig"
errConnectionCheckerIsNil == "errConnectionCheckerIsNil"
\* the error connchecker.New returns when the prober cannot be constructed
errCheckerNew == "errCheckerNew"
\* a nil pointer dereference: the goroutine panics and the process dies
Panic == "panic"
NoErr == "nil"

\* a Go slice: nil, or a (possibly empty) list of strings
NilSlice == [isNil |-> TRUE, elems |-> <<>>]
MkSlice(s) == [isNil |-> FALSE, elems |-> s]

\* package defaults of connchecker
DefaultDNSList == MkSlice(<<"8.8.8.8", "8.8.4.4", "1.1.1.1", "1.0.0.1">>)
DefaultDomainList == MkSlice(<<"www.google.com", "www.cloudflare.com", "www.facebook.com">>)
\* time.Second, in seconds
DefaultCheckInterval == 1

\* the configurations a caller may hand to setupConnectionManager
DNSInputs == {NilSlice, MkSlice(<<>>), MkSlice(<<"9.9.9.9">>)}
DomainInputs == {NilSlice, MkSlice(<<>>), MkSlice(<<"example.org">>)}
IntervalInputs == {0, 1, 5}
ConfigInputs == [DNSList : DNSInputs, PublicDomainList : DomainInputs,
                 CheckInterval : IntervalInputs]

\* a *connectionManager: the nil pointer, or an object with its fields.
\* conn is an index into probers, 0 is the nil *connchecker.Checker.
\* cfg is the pointer kept by the manager; it aliases the caller's config.
NilManager == [isNil |-> TRUE, started |-> 0, conn |-> 0, cfg |-> "nil"]

VARIABLES
    connCfg,    \* Config.ConnectionMonitor, the object setup receives a pointer to
    m,          \* the *connectionManager handle shared by all goroutines
    setupCall,  \* the last setupConnectionManager call: its argument, its error, and
                \* whether a call has replaced a manager the handle held
    probers,    \* every connchecker.Checker constructed so far
    pc,         \* per goroutine: position inside the call it is executing
    lconn,      \* per goroutine: the m.conn value it loaded
    pend,       \* per goroutine: the return value chosen before the deferred CAS
    qret,       \* the last IsRunning/IsOnline call that returned, and its result
    hist,       \* the Start/Stop calls that returned, in order of return
    overlap,    \* TRUE once a Start/Stop call began while another was in progress
    crashed     \* TRUE once a goroutine panicked

\* the engine around the subsystems (Part 2)
VARIABLES
    settings,   \* Engine.Settings and the config values Start/Stop branch on
    sub,        \* per subsystem handle of the Engine: "nil", "stopped", "running"
    mutex,      \* newEngineMutex: 0 when free, else the caller that holds it
    cpc,        \* per caller: "idle", or the Engine method it has called
    epos,       \* per caller: its position in the body, 0 outside the body
    err,        \* the local err of the Start in progress: TRUE when non-nil
    wg,         \* the counter of Engine.ServicesWG
    task,       \* per subsystem that is given ServicesWG: its background task
    exiting,    \* background tasks that were told to stop and have not exited
    orphans,    \* live tasks of handles the Engine no longer holds
    gor,        \* the goroutines Start spawned that have not run yet
    rpc,        \* the RPC server goroutines spawned so far
    ev,         \* what the pass in progress (or the last one) did, in order
    last,       \* the Engine call that returned last, its result, the calls before it
    estate,     \* the engine as its caller sees it: "Idle", "Up", "Failed"
    passes,     \* Engine.Start/Engine.Stop calls issued so far
    faults      \* the collaborator calls that fail in this behaviour

evars == <<settings, sub, mutex, cpc, epos, err, wg, task, exiting, orphans, gor, rpc, ev,
           last, estate, passes, faults>>
cmvars == <<pc, lconn, pend, qret, hist, overlap, crashed>>

\* calls of package functions outside the engine's lifecycle (Part 3)
VARIABLES
    save,       \* one call of Config.Save: its inputs, its position, what it did
    flag,       \* one call of FlagSet.WithBool: its arguments and *flagValue
    load,       \* one call of loadConfigWithSettings: its inputs, its position, what it did
    http        \* the package's HTTP client, its RWMutex and the calls in progress
pvars == <<save, flag, load, http>>

vars == <<connCfg, m, setupCall, probers, pc, lconn, pend, qret, hist, overlap, crashed,
          settings, sub, mutex, cpc, epos, err, wg, task, exiting, orphans, gor, rpc, ev,
          last, estate, passes, faults, save, flag, load, http>>

\* ------------------------------------------------------------ atomics
\* atomic.CompareAndSwapInt32(&v, old, new): the value afterwards
CASValue(v, old, new) == IF v = old THEN new ELSE v
\* atomic.CompareAndSwapInt32(&v, old, new): whether it swapped
CASOk(v, old) == v = old

\* ------------------------------------------------------------ connchecker
\* a Checker right after a successful connchecker.New
NewChecker(connected) == [state |-> "live", shutdowns |-> 0, connected |-> connected]
\* Checker.Shutdown: stops the monitor and waits for it
CheckerShutdown(c) == [c EXCEPT !.state = "closed", !.shutdowns = @ + 1]

\* ------------------------------------------------------------ Setup
\* setupConnectionManager that tests len(list) == 0 in place of list == nil
setupConnectionManager_LenCheck(cfgPtr, cfg) ==
    IF cfgPtr = "nil"
    THEN [mgr |-> NilManager, err |-> errNilConfig, cfg |-> cfg]
    ELSE [mgr |-> [isNil |-> FALSE, started |-> 0, conn |-> 0, cfg |-> cfgPtr],
          err |-> NoErr,
          cfg |-> [DNSList |-> IF Len(cfg.DNSList.elems) = 0
                               THEN DefaultDNSList ELSE cfg.DNSList,
                   PublicDomainList |-> IF Len(cfg.PublicDomainList.elems) = 0
                                        THEN DefaultDomainList ELSE cfg.PublicDomainList,
                   CheckInterval |-> IF cfg.CheckInterval = 0
                                     THEN DefaultCheckInterval ELSE cfg.CheckInterval]]

\* setupConnectionManager(cfg): the handle, the error, and the config object
\* after the call (the defaults are written through the pointer)
setupConnectionManager(cfgPtr, cfg) ==
    IF cfgPtr = "nil"
    THEN [mgr |-> NilManager, err |-> errNilConfig, cfg |-> cfg]
    ELSE [mgr |-> [isNil |-> FALSE, started |-> 0, conn |-> 0, cfg |-> cfgPtr],
          err |-> NoErr,
          cfg |-> [DNSList |-> IF cfg.DNSList.isNil THEN DefaultDNSList ELSE cfg.DNSList,
                   PublicDomainList |-> IF cfg.PublicDomainList.isNil
                                        THEN DefaultDomainList ELSE cfg.PublicDomainList,
                   CheckInterval |-> IF cfg.CheckInterval = 0
                                     THEN DefaultCheckInterval ELSE cfg.CheckInterval]]

\* bot.connectionManager, err = setupConnectionManager(cfg): the record of
\* the call; the assignment drops the manager the handle held, if any
SetupCalled(cfgPtr, e) ==
    [arg |-> cfgPtr, err |-> e, replaced |-> setupCall.replaced \/ ~m.isNil]

\* ------------------------------------------------------------ helpers
Idle(t) == pc[t] = "idle"
LifecyclePcs == {"start_new", "start_rollback", "stop_chk", "stop_shutdown", "stop_defer"}
InLifecycle(t) == pc[t] \in LifecyclePcs
CallsIssued == Len(hist) + Cardinality({t \in Threads : InLifecycle(t)})
CanCall(t) == ~crashed /\ Idle(t) /\ CallsIssued < MaxCalls
\* a Start/Stop call of goroutine t begins
Begin(t) == overlap' = (overlap \/ \E u \in Threads \ {t} : InLifecycle(u))
\* a Start/Stop call of goroutine t returns r
Return(t, op, r) ==
    /\ hist' = Append(hist, [op |-> op, res |-> r])

\* ------------------------------------------------------------ the engine
\* the subsystems Engine.Start and Engine.Stop handle, by the Engine field
\* (or package) that holds them
DatabaseManager == "DatabaseManager"
dispatch == "dispatch"
connectionManager == "connectionManager"
ntpManager == "ntpManager"
ExchangeManager == "ExchangeManager"
CommunicationsManager == "CommunicationsManager"
portfolioManager == "portfolioManager"
dataHistoryManager == "dataHistoryManager"
WithdrawManager == "WithdrawManager"
\* bot.apiServer holds two servers, each with its own running state
RESTServer == "apiServer.REST"
WebsocketServer == "apiServer.Websocket"
DepositAddressManager == "DepositAddressManager"
OrderManager == "OrderManager"
currencyPairSyncer == "currencyPairSyncer"
eventManager == "eventManager"
websocketRoutineManager == "websocketRoutineManager"
gctScriptManager == "gctScriptManager"
currencyStateManager == "currencyStateManager"

\* the handles whose state the model keeps in sub (the connection manager is
\* the variable m of Part 1)
SubNames == {DatabaseManager, dispatch, ntpManager, CommunicationsManager,
             portfolioManager, dataHistoryManager, WithdrawManager, RESTServer,
             WebsocketServer, DepositAddressManager, OrderManager,
             currencyPairSyncer, eventManager, websocketRoutineManager,
             gctScriptManager, currencyStateManager}

\* the subsystems with the Start/Stop/IsRunning contract
Lifecycle == (SubNames \ {WithdrawManager, DepositAddressManager})
                 \cup {connectionManager}

\* the subsystems whose Start is handed &bot.ServicesWG (the order manager
\* receives it at setup)
WGSubs == {DatabaseManager, portfolioManager, OrderManager, gctScriptManager}

\* the Settings field that enables each subsystem
FlagOf(s) ==
    CASE s = DatabaseManager -> "EnableDatabaseManager"
      [] s = dispatch -> "EnableDispatcher"
      [] s = connectionManager -> "EnableConnectivityMonitor"
      [] s = ntpManager -> "EnableNTPClient"
      [] s = CommunicationsManager -> "EnableCommsRelayer"
      [] s = portfolioManager -> "EnablePortfolioManager"
      [] s = dataHistoryManager -> "EnableDataHistoryManager"
      [] s = RESTServer -> "EnableDeprecatedRPC"
      [] s = WebsocketServer -> "EnableWebsocketRPC"
      [] s = DepositAddressManager -> "EnableDepositAddressManager"
      [] s = OrderManager -> "EnableOrderManager"
      [] s = currencyPairSyncer -> "EnableExchangeSyncManager"
      [] s = eventManager -> "EnableEventManager"
      [] s = websocketRoutineManager -> "EnableWebsocketRoutine"
      [] s = gctScriptManager -> "EnableGCTScriptManager"
      [] s = currencyStateManager -> "EnableCurrencyStateManager"
      [] OTHER -> "always"

EnableFlags == {FlagOf(s) : s \in Lifecycle \cup {DepositAddressManager}}
                   \cup {"EnableGRPC"}

\* the subsystem handles each setup function is given
Deps(s) ==
    CASE s = dataHistoryManager -> {DatabaseManager}
      [] s = WithdrawManager -> {portfolioManager}
      [] s = RESTServer -> {portfolioManager}
      [] s = WebsocketServer -> {portfolioManager}
      [] s = OrderManager -> {CommunicationsManager}
      [] s = eventManager -> {CommunicationsManager}
      [] s = websocketRoutineManager -> {OrderManager, currencyPairSyncer}
      [] OTHER -> {}

\* the settings the engine is run with.  Next to the enable flags:
\* "EnableDryRun" and "ExchangePurgeCredentials" of Settings,
\* "NTPLevelZero" for Config.NTPClient.Level == 0, and "HasAddresses" for a
\* portfolio that holds addresses once it runs
AllEnabled == EnableFlags \cup {"NTPLevelZero", "HasAddresses", "ExchangePurgeCredentials"}
SettingsInputs ==
    { AllEnabled,
      {"EnableDryRun", "EnableConnectivityMonitor", "EnablePortfolioManager",
       "EnableExchangeSyncManager", "EnableEventManager", "EnableCommsRelayer",
       "HasAddresses"},
      {"EnablePortfolioManager", "EnableDataHistoryManager", "EnableDispatcher",
       "EnableGRPC", "EnableNTPClient"},
      {"EnablePortfolioManager", "EnableDepositAddressManager", "EnableOrderManager",
       "EnableEventManager"},
      {} }

\* ------------------------------------------------------------ contract
\* What a subsystem outside connection_manager.go does, by the lifecycle
\* contract: the state of the handle after the call, and the error.
\* Setup: a Stopped subsystem, or the nil handle with an error
SubSetup(ok) == IF ok THEN "stopped" ELSE "nil"
SubIsRunning(st) == st = "running"
SubStart(st, ok) ==
    CASE st = "nil" -> [st |-> st, err |-> ErrNilSubsystem]
      [] st = "running" -> [st |-> st, err |-> ErrSubSystemAlreadyStarted]
      [] OTHER -> IF ok THEN [st |-> "running", err |-> NoErr]
                        ELSE [st |-> "stopped", err |-> "errStart"]
SubStop(st, ok) ==
    CASE st = "nil" -> [st |-> st, err |-> ErrNilSubsystem]
      [] st = "stopped" -> [st |-> st, err |-> ErrSubSystemNotStarted]
      [] OTHER -> [st |-> "stopped", err |-> IF ok THEN NoErr ELSE "errStop"]

\* the engine right after NewFromSettings(settings): only the script manager
\* and the exchange manager exist, and the dispatcher is a package singleton
EngineInit(set, flt) ==
    /\ settings = set
    /\ sub = [s \in SubNames |->
                IF s \in {gctScriptManager, dispatch} THEN "stopped" ELSE "nil"]
    /\ mutex = 0
    /\ cpc = [t \in Callers |-> "idle"]
    /\ epos = [t \in Callers |-> 0]
    /\ err = FALSE
    /\ wg = 0
    /\ task = [s \in WGSubs |-> "none"]
    /\ exiting = 0
    /\ orphans = 0
    /\ gor = [deposit |-> FALSE, syncer |-> FALSE, syncerOld |-> 0]
    /\ rpc = 0
    /\ ev = <<>>
    /\ last = [op |-> "none", ret |-> "none", before |-> <<>>]
    /\ estate = "Idle"
    /\ passes = 0
    /\ faults = flt

\* the engine right after New(): var b Engine, so Settings is the zero value
\* and every handle, the script manager's too, is nil
EngineNew(flt) ==
    /\ settings = {}
    /\ sub = [s \in SubNames |-> IF s = dispatch THEN "stopped" ELSE "nil"]
    /\ mutex = 0
    /\ cpc = [t \in Callers |-> "idle"]
    /\ epos = [t \in Callers |-> 0]
    /\ err = FALSE
    /\ wg = 0
    /\ task = [s \in WGSubs |-> "none"]
    /\ exiting = 0
    /\ orphans = 0
    /\ gor = [deposit |-> FALSE, syncer |-> FALSE, syncerOld |-> 0]
    /\ rpc = 0
    /\ ev = <<>>
    /\ last = [op |-> "none", ret |-> "none", before |-> <<>>]
    /\ estate = "Idle"
    /\ passes = 0
    /\ faults = flt

\* ------------------------------------------------------------ Config.Save
fileEncryptionPrompt == 0
fileEncryptionEnabled == 1
fileEncryptionDisabled == -1
EncryptInputs == {fileEncryptionDisabled, fileEncryptionPrompt, fileEncryptionEnabled}

\* the calls Save makes that can fail
SaveCalls == {"marshal", "key", "derive", "encrypt", "writer", "copy"}

\* a call of c.Save(writerProvider, keyProvider) that is about to start:
\* c.EncryptConfig, whether c.sessionDK is set, and the calls that fail
SaveStart(enc, dk, fails) ==
    [pos |-> "marshal", EncryptConfig |-> enc, sessionDK |-> dk, fails |-> fails,
     payload |-> "none", keyCalls |-> 0, writerCalls |-> 0, written |-> "none",
     ret |-> "none"]
SaveIdle == [SaveStart(fileEncryptionDisabled, FALSE, {}) EXCEPT !.pos = "idle"]

\* ------------------------------------------------------------ FlagSet
FlagKeys == {"dryrun", "verbose", "datadir"}
\* a FlagSet: per key no entry, or the bool stored for it
FlagSets == [FlagKeys -> {"absent", "true", "false"}]
\* f[key] of a Go map: the zero value when the key has no entry
MapGet(f, key) == f[key] = "true"

\* a call f.WithBool(key, &flagValue, configValue) that is about to start;
\* cmd keeps the value *flagValue held at the call
FlagStart(f, key, fv, cv) ==
    [pos |-> "call", f |-> f, key |-> key, flagValue |-> fv, cmd |-> fv,
     configValue |-> cv]
FlagIdle ==
    [FlagStart([k \in FlagKeys |-> "absent"], "dryrun", FALSE, FALSE) EXCEPT !.pos = "idle"]

\* ------------------------------------------------------------ loadConfigWithSettings
maxAuthFailures == 3

\* a call loadConfigWithSettings(settings, flagSet) that is about to start:
\* settings.EnableDryRun, flagSet["datadir"], and the file: whether it is
\* encrypted and the EncryptConfig it holds. conf starts as &config.Config{}.
LoadStart(dry, dd, enc, fe) ==
    [pos |-> "path", EnableDryRun |-> dry, datadir |-> dd,
     fileEncrypted |-> enc, fileEncryptConfig |-> fe,
     dryrun |-> FALSE, EncryptConfig |-> fileEncryptionPrompt, DataDirectory |-> "none",
     wasEncrypted |-> FALSE, errCounter |-> 0, keyCalls |-> 0, keyRet |-> "none",
     prompt |-> "none", saves |-> 0, readRet |-> "none", ret |-> "none", conf |-> "none"]
LoadIdle ==
    [LoadStart(FALSE, FALSE, FALSE, fileEncryptionDisabled) EXCEPT !.pos = "idle"]

\* ------------------------------------------------------------ HTTP client
HTTPCallers == 1..NumCallers
\* var _HTTPClient *http.Client; var _HTTPUserAgent string; var m sync.RWMutex;
\* no call in progress. ua is the User-Agent header of the request a
\* SendHTTPRequest call has built
HttpStart ==
    [client |-> "nil", agent |-> "", rlock |-> [t \in HTTPCallers |-> FALSE], wlock |-> 0,
     hpc |-> [t \in HTTPCallers |-> "idle"], arg |-> [t \in HTTPCallers |-> "nil"],
     ua |-> [t \in HTTPCallers |-> ""], ret |-> [t \in HTTPCallers |-> "none"]]
HttpIdle == HttpStart

\* no package function is being called
PackageIdle == save = SaveIdle /\ flag = FlagIdle /\ load = LoadIdle /\ http = HttpIdle

Init ==
    /\ connCfg = [DNSList |-> NilSlice, PublicDomainList |-> NilSlice, CheckInterval |-> 0]
    /\ m = NilManager
    /\ setupCall = [arg |-> "none", err |-> "none", replaced |-> FALSE]
    /\ probers = <<>>
    /\ pc = [t \in Threads |-> "idle"]
    /\ lconn = [t \in Threads |-> 0]
    /\ pend = [t \in Threads |-> NoErr]
    /\ qret = [op |-> "none", res |-> "none"]
    /\ hist = <<>>
    /\ overlap = FALSE
    /\ crashed = FALSE
    /\ PackageIdle
    /\ EngineInit({}, {})

\* the owner of the handle sets the subsystem up: the handle is assigned
\* whatever setupConnectionManager returns, as Engine.Start does, whether it
\* was nil, set up or running; a manager that is replaced keeps its prober.
\* Engine.Start makes the assignment and every Start/Stop call under
\* newEngineMutex, so no such call is in progress on the manager replaced;
\* a query in progress keeps the old receiver and is taken to have returned.
Setup ==
    /\ ~crashed
    /\ \A t \in Threads : Idle(t)
    /\ \E cfgPtr \in {"nil", "ConnectionMonitor"} :
         LET r == setupConnectionManager(cfgPtr, connCfg) IN
           /\ m' = r.mgr
           /\ setupCall' = SetupCalled(cfgPtr, r.err)
           /\ connCfg' = r.cfg
    /\ UNCHANGED <<probers, pc, lconn, pend, qret, hist, overlap, crashed>>
    /\ UNCHANGED <<evars, pvars>>

\* ------------------------------------------------------------ IsRunning
\* a method that never takes its receiver for nil
NilReceiver_Never(mgr) == FALSE

\* if m == nil
NilReceiver(mgr) == mgr.isNil

IsRunningValue(mgr) == IF NilReceiver(mgr) THEN FALSE ELSE mgr.started = 1

\* an IsRunning that takes the engine mutex first
IsRunning_Locked(t) ==
    /\ ~crashed
    /\ Idle(t)
    /\ mutex = 0
    /\ qret' = [op |-> "IsRunning", res |-> IF IsRunningValue(m) THEN "true" ELSE "false"]
    /\ UNCHANGED <<connCfg, m, setupCall, probers, pc, lconn, pend, hist, overlap, crashed>>
    /\ UNCHANGED <<evars, pvars>>

IsRunning(t) ==
    /\ ~crashed
    /\ Idle(t)
    /\ qret' = [op |-> "IsRunning", res |-> IF IsRunningValue(m) THEN "true" ELSE "false"]
    /\ UNCHANGED <<connCfg, m, setupCall, probers, pc, lconn, pend, hist, overlap, crashed>>
    /\ UNCHANGED <<evars, pvars>>

\* ------------------------------------------------------------ Start
\* Start with a plain load in place of the CAS: every caller that gets past
\* the nil check claims Running
StartEntry_NoCAS(mgr) ==
    IF NilReceiver(mgr)
    THEN [m |-> mgr, res |-> ErrNilSubsystem]
    ELSE [m |-> [mgr EXCEPT !.started = 1], res |-> "continue"]

\* Start that drops the stale prober handle before it tries the CAS
StartEntry_ClearsConn(mgr) ==
    IF NilReceiver(mgr)
    THEN [m |-> mgr, res |-> ErrNilSubsystem]
    ELSE IF ~CASOk(mgr.started, 0)
    THEN [m |-> [mgr EXCEPT !.conn = 0], res |-> ErrSubSystemAlreadyStarted]
    ELSE [m |-> [mgr EXCEPT !.started = CASValue(mgr.started, 0, 1), !.conn = 0],
          res |-> "continue"]

\* the entry of Start: the manager afterwards, and the error returned
\* ("continue" when Start goes on to construct the prober)
StartEntry(mgr) ==
    IF NilReceiver(mgr)
    THEN [m |-> mgr, res |-> ErrNilSubsystem]
    ELSE IF ~CASOk(mgr.started, 0)
    THEN [m |-> mgr, res |-> ErrSubSystemAlreadyStarted]
    ELSE [m |-> [mgr EXCEPT !.started = CASValue(mgr.started, 0, 1)], res |-> "continue"]

\* first step of Start: nil check and the CAS that claims Running
StartCall(t) ==
    /\ CanCall(t)
    /\ Begin(t)
    /\ LET e == StartEntry(m) IN
         /\ m' = e.m
         /\ IF e.res = "continue"
            THEN /\ pc' = [pc EXCEPT ![t] = "start_new"]
                 /\ UNCHANGED hist
            ELSE /\ Return(t, "Start", e.res)
                 /\ UNCHANGED pc
    /\ UNCHANGED <<connCfg, setupCall, probers, lconn, pend, qret, crashed>>
    /\ UNCHANGED <<evars, pvars>>

\* m.conn, err = connchecker.New(...); on success Start returns nil.  Both
\* results of New are stored: on failure New returns a nil *Checker with the
\* error, so m.conn becomes nil before the rollback CAS runs.
StartNew(t) ==
    /\ ~crashed
    /\ pc[t] = "start_new"
    /\ \E ok \in BOOLEAN, connected \in BOOLEAN :
         IF ok
         THEN /\ probers' = Append(probers, NewChecker(connected))
              /\ m' = [m EXCEPT !.conn = Len(probers) + 1]
              /\ pc' = [pc EXCEPT ![t] = "idle"]
              /\ Return(t, "Start", NoErr)
         ELSE /\ ~connected
              /\ m' = [m EXCEPT !.conn = 0]
              /\ pc' = [pc EXCEPT ![t] = "start_rollback"]
              /\ UNCHANGED <<probers, hist>>
    /\ UNCHANGED <<connCfg, setupCall, lconn, pend, qret, overlap, crashed>>
    /\ UNCHANGED <<evars, pvars>>

\* the error path of Start without the rollback
RollbackValue_None(v) == v

\* atomic.CompareAndSwapInt32(&m.started, 1, 0) on the error path of Start
RollbackValue(v) == CASValue(v, 1, 0)

\* the rollback CAS after a failed construction, and the error return
StartRollback(t) ==
    /\ ~crashed
    /\ pc[t] = "start_rollback"
    /\ m' = [m EXCEPT !.started = RollbackValue(m.started)]
    /\ pc' = [pc EXCEPT ![t] = "idle"]
    /\ Return(t, "Start", errCheckerNew)
    /\ UNCHANGED <<connCfg, setupCall, probers, lconn, pend, qret, overlap, crashed>>
    /\ UNCHANGED <<evars, pvars>>

\* ------------------------------------------------------------ Stop
\* Stop without the check of the started flag
StopEntry_NoCheck(mgr) ==
    IF NilReceiver(mgr)
    THEN [m |-> mgr, res |-> ErrNilSubsystem]
    ELSE [m |-> mgr, res |-> "continue"]

\* Stop that forgets the prober handle before it checks the flag
StopEntry_DropsConn(mgr) ==
    IF NilReceiver(mgr)
    THEN [m |-> mgr, res |-> ErrNilSubsystem]
    ELSE IF mgr.started = 0
    THEN [m |-> [mgr EXCEPT !.conn = 0], res |-> ErrSubSystemNotStarted]
    ELSE [m |-> mgr, res |-> "continue"]

\* the entry of Stop: the manager afterwards, and the error returned
\* ("continue" when Stop goes on to shut the prober down)
StopEntry(mgr) ==
    IF NilReceiver(mgr)
    THEN [m |-> mgr, res |-> ErrNilSubsystem]
    ELSE IF mgr.started = 0
    THEN [m |-> mgr, res |-> ErrSubSystemNotStarted]
    ELSE [m |-> mgr, res |-> "continue"]

\* first step of Stop: nil check and the load of started
StopCall(t) ==
    /\ CanCall(t)
    /\ Begin(t)
    /\ LET e == StopEntry(m) IN
         /\ m' = e.m
         /\ IF e.res = "continue"
            THEN /\ pc' = [pc EXCEPT ![t] = "stop_chk"]
                 /\ UNCHANGED hist
            ELSE /\ Return(t, "Stop", e.res)
                 /\ UNCHANGED pc
    /\ UNCHANGED <<connCfg, setupCall, probers, lconn, pend, qret, crashed>>
    /\ UNCHANGED <<evars, pvars>>

\* if m.conn == nil
\* Stop without the nil check of the prober handle
StopConnCheck_NoNilCheck(conn) == [pc |-> "stop_shutdown", pend |-> NoErr]

\* Stop that returns nil without calling Shutdown
StopConnCheck_SkipShutdown(conn) ==
    IF conn = 0
    THEN [pc |-> "stop_defer", pend |-> errConnectionCheckerIsNil]
    ELSE [pc |-> "stop_defer", pend |-> NoErr]

\* where Stop goes after loading m.conn, and the error it will return
StopConnCheck(conn) ==
    IF conn = 0
    THEN [pc |-> "stop_defer", pend |-> errConnectionCheckerIsNil]
    ELSE [pc |-> "stop_shutdown", pend |-> NoErr]

StopChk(t) ==
    /\ ~crashed
    /\ pc[t] = "stop_chk"
    /\ lconn' = [lconn EXCEPT ![t] = m.conn]
    /\ pend' = [pend EXCEPT ![t] = StopConnCheck(m.conn).pend]
    /\ pc' = [pc EXCEPT ![t] = StopConnCheck(m.conn).pc]
    /\ UNCHANGED <<connCfg, m, setupCall, probers, qret, hist, overlap, crashed>>
    /\ UNCHANGED <<evars, pvars>>

\* m.conn.Shutdown(): m.conn is read without synchronisation, so the call
\* uses the pointer loaded by the nil check or the one stored meanwhile
StopShutdown(t) ==
    /\ ~crashed
    /\ pc[t] = "stop_shutdown"
    /\ \E c \in {lconn[t], m.conn} :
         IF c = 0
         THEN /\ pend' = [pend EXCEPT ![t] = Panic]
              /\ UNCHANGED <<probers, lconn>>
         ELSE /\ probers' = [probers EXCEPT ![c] = CheckerShutdown(@)]
              /\ lconn' = [lconn EXCEPT ![t] = c]
              /\ pend' = [pend EXCEPT ![t] = NoErr]
    /\ pc' = [pc EXCEPT ![t] = "stop_defer"]
    /\ UNCHANGED <<connCfg, m, setupCall, qret, hist, overlap, crashed>>
    /\ UNCHANGED <<evars, pvars>>

\* Stop without the deferred clear of the flag
StopClearValue_None(v) == v

\* the deferred atomic.CompareAndSwapInt32(&m.started, 1, 0) of Stop
StopClearValue(v) == CASValue(v, 1, 0)

\* the deferred CAS, then the return
StopDefer(t) ==
    /\ ~crashed
    /\ pc[t] = "stop_defer"
    /\ m' = [m EXCEPT !.started = StopClearValue(m.started)]
    /\ pc' = [pc EXCEPT ![t] = "idle"]
    /\ Return(t, "Stop", pend[t])
    /\ crashed' = (pend[t] = Panic)
    /\ lconn' = [lconn EXCEPT ![t] = 0]
    /\ pend' = [pend EXCEPT ![t] = NoErr]
    /\ UNCHANGED <<connCfg, setupCall, probers, qret, overlap>>
    /\ UNCHANGED <<evars, pvars>>

\* ------------------------------------------------------------ IsOnline
\* nil checks of m and m.conn
IsOnlineCall(t) ==
    /\ ~crashed
    /\ Idle(t)
    /\ IF NilReceiver(m) \/ m.conn = 0
       THEN /\ qret' = [op |-> "IsOnline", res |-> "false"]
            /\ UNCHANGED <<pc, lconn>>
       ELSE /\ lconn' = [lconn EXCEPT ![t] = m.conn]
            /\ pc' = [pc EXCEPT ![t] = "online_call"]
            /\ UNCHANGED qret
    /\ UNCHANGED <<connCfg, m, setupCall, probers, pend, hist, overlap, crashed>>
    /\ UNCHANGED <<evars, pvars>>

\* return m.conn.IsConnected()
IsOnlineRet(t) ==
    /\ ~crashed
    /\ pc[t] = "online_call"
    /\ \E c \in {lconn[t], m.conn} :
         IF c = 0
         THEN /\ qret' = [op |-> "IsOnline", res |-> Panic]
              /\ crashed' = TRUE
         ELSE /\ qret' = [op |-> "IsOnline",
                          res |-> IF probers[c].connected THEN "true" ELSE "false"]
              /\ UNCHANGED crashed
    /\ pc' = [pc EXCEPT ![t] = "idle"]
    /\ lconn' = [lconn EXCEPT ![t] = 0]
    /\ UNCHANGED <<connCfg, m, setupCall, probers, pend, hist, overlap>>
    /\ UNCHANGED <<evars, pvars>>

Next ==
    \/ Setup
    \/ \E t \in Threads : IsRunning(t)
    \/ \E t \in Threads : StartCall(t)
    \/ \E t \in Threads : StartNew(t)
    \/ \E t \in Threads : StartRollback(t)
    \/ \E t \in Threads : StopCall(t)
    \/ \E t \in Threads : StopChk(t)
    \/ \E t \in Threads : StopShutdown(t)
    \/ \E t \in Threads : StopDefer(t)
    \/ \E t \in Threads : IsOnlineCall(t)
    \/ \E t \in Threads : IsOnlineRet(t)

Spec == Init /\ [][Next]_vars

\* ------------------------------------------------------------ Setup alone
\* setupConnectionManager applied to every configuration of ConfigInputs,
\* observed through the two queries
InitSetup ==
    /\ connCfg \in ConfigInputs
    /\ m = NilManager
    /\ setupCall = [arg |-> "none", err |-> "none", replaced |-> FALSE]
    /\ probers = <<>>
    /\ pc = [t \in Threads |-> "idle"]
    /\ lconn = [t \in Threads |-> 0]
    /\ pend = [t \in Threads |-> NoErr]
    /\ qret = [op |-> "none", res |-> "none"]
    /\ hist = <<>>
    /\ overlap = FALSE
    /\ crashed = FALSE
    /\ PackageIdle
    /\ EngineInit({}, {})

NextSetup ==
    \/ Setup
    \/ \E t \in Threads : IsRunning(t)
    \/ \E t \in Threads : IsOnlineCall(t)

SpecSetup == InitSetup /\ [][NextSetup]_vars

\* ============================================================ Part 2
\* Engine.Start and Engine.Stop (engine/engine.go).  A caller that is inside
\* the body holds newEngineMutex; every statement group of the body is one
\* step, and the goroutines Start spawns run between those steps.

SubState(s) ==
    IF s = connectionManager
    THEN (IF m.isNil THEN "nil" ELSE IF m.started = 1 THEN "running" ELSE "stopped")
    ELSE sub[s]
\* an IsRunning that answers true on a nil handle
Running_NilAsRunning(s) == SubState(s) # "stopped"

\* X.IsRunning() as the sequencers call it
Running(s) ==
    IF s = connectionManager THEN IsRunningValue(m) ELSE SubIsRunning(sub[s])
\* a setup function fails when a handle it is given is nil
DepsPresent(s) == \A d \in Deps(s) : SubState(d) # "nil"

\* the error of a setup function: the nil checks of its arguments come first
SetupErr(s, ok) ==
    IF ~DepsPresent(s) THEN "errNilDependency" ELSE IF ok THEN NoErr ELSE "errSetup"

\* whether the call op of collaborator s succeeds in this behaviour
Ok(op, s) == <<op, s>> \notin faults
Event(e, s, r) == [e |-> e, s |-> s, r |-> r]
Log(e, s, r) == ev' = Append(ev, Event(e, s, r))

\* the body of Engine.Start, in source order: k is the kind of statement
\* group, s the subsystem it handles
Item(k, s) == [k |-> k, s |-> s]
StartPlan ==
    << Item("setup", DatabaseManager), Item("check", DatabaseManager),
       Item("start", dispatch),
       Item("connsetup", connectionManager), Item("conncheck", connectionManager),
       Item("ntpcheck", ntpManager), Item("setup", ntpManager),
       Item("purge", "Config"),
       Item("exchanges", ExchangeManager),
       Item("setup", CommunicationsManager), Item("check", CommunicationsManager),
       Item("storage", "StorageUpdater"),
       Item("grpc", "rpcServer"),
       Item("guard", portfolioManager), Item("setup", portfolioManager),
       Item("check", portfolioManager),
       Item("guard", dataHistoryManager), Item("setup", dataHistoryManager),
       Item("check", dataHistoryManager),
       Item("withdraw", WithdrawManager),
       Item("apipath", "apiServer"), Item("apisetup", "apiServer"),
       Item("apirest", "apiServer"), Item("apiws", "apiServer"),
       Item("deposit", DepositAddressManager),
       Item("setup", OrderManager), Item("check", OrderManager),
       Item("setup", currencyPairSyncer), Item("spawn", currencyPairSyncer),
       Item("setup", eventManager), Item("check", eventManager),
       Item("setup", websocketRoutineManager), Item("check", websocketRoutineManager),
       Item("setup", gctScriptManager), Item("start", gctScriptManager),
       Item("setup", currencyStateManager), Item("check", currencyStateManager),
       Item("ret", "return") >>

\* the body of Engine.Stop, in source order
StopList ==
    << gctScriptManager, OrderManager, eventManager, ntpManager,
       CommunicationsManager, portfolioManager, connectionManager, RESTServer,
       WebsocketServer, dataHistoryManager, DatabaseManager, dispatch,
       websocketRoutineManager, currencyStateManager >>
\* a shutdown that saves the configuration before it stops the subsystems
StopPlan_SaveFirst ==
    << Item("capture", portfolioManager), Item("save", "Config") >>
      \o [i \in 1..Len(StopList) |->
            Item(IF StopList[i] = connectionManager THEN "connstop" ELSE "stop",
                 StopList[i])]
      \o << Item("storage", "StorageUpdater"),
            Item("wait", "ServicesWG"), Item("closelog", "Logger") >>

\* the statements of Engine.Stop, in source order
StopPlan ==
    << Item("capture", portfolioManager) >>
      \o [i \in 1..Len(StopList) |->
            Item(IF StopList[i] = connectionManager THEN "connstop" ELSE "stop",
                 StopList[i])]
      \o << Item("storage", "StorageUpdater"), Item("save", "Config"),
            Item("wait", "ServicesWG"), Item("closelog", "Logger") >>

InBody(t) == epos[t] > 0
AtStart(t, k) == cpc[t] = "Start" /\ InBody(t) /\ StartPlan[epos[t]].k = k
AtStop(t, k) == cpc[t] = "Stop" /\ InBody(t) /\ StopPlan[epos[t]].k = k
CurStart(t) == StartPlan[epos[t]].s
CurStop(t) == StopPlan[epos[t]].s
\* the first item after the statement group of item i
GroupEnd(i) ==
    CHOOSE j \in (i + 1)..Len(StartPlan) :
       /\ StartPlan[j].s # StartPlan[i].s
       /\ \A k \in i..(j - 1) : StartPlan[k].s = StartPlan[i].s
Adv(t) == epos' = [epos EXCEPT ![t] = @ + 1]
SkipGroup(t) == epos' = [epos EXCEPT ![t] = GroupEnd(@)]

\* a goroutine of a Start that has returned writes an err nobody reads:
\* the deposit sync has no other effect, the syncer Start still has to run
GorDetach(g) ==
    [deposit |-> FALSE, syncer |-> FALSE,
     syncerOld |-> g.syncerOld + (IF g.syncer THEN 1 ELSE 0)]

\* ------------------------------------------------------------ callers
\* a caller invokes Engine.Start or Engine.Stop and reaches the Lock
EngineCall(t) ==
    /\ cpc[t] = "idle"
    /\ passes < MaxPasses
    /\ \E op \in {"Start", "Stop"} : cpc' = [cpc EXCEPT ![t] = op]
    /\ passes' = passes + 1
    /\ UNCHANGED <<connCfg, m, setupCall, probers, cmvars, pvars, faults, exiting, settings, sub, mutex, epos,
                   err, wg, task, orphans, gor, rpc, ev, last, estate>>

\* the Engine call op returns ret: it becomes the last call, after the others
Returns(op, ret) ==
    [op |-> op, ret |-> ret,
     before |-> IF last.op = "none" THEN <<>> ELSE Append(last.before, <<last.op, last.ret>>)]

\* if bot == nil: Start on a nil *Engine returns before it touches the mutex
EngineStartNil(t) ==
    /\ cpc[t] = "idle"
    /\ passes < MaxPasses
    /\ passes' = passes + 1
    /\ last' = Returns("Start", "errNilEngine")
    /\ UNCHANGED <<connCfg, m, setupCall, probers, cmvars, pvars, faults, exiting, settings, sub, mutex, cpc,
                   epos, err, wg, task, orphans, gor, rpc, ev, estate>>

\* a mutex that never makes a caller wait
MutexFree_Always(mu) == TRUE

\* sync.Mutex.Lock returns only when nobody holds the mutex
MutexFree(mu) == mu = 0

\* newEngineMutex.Lock(); the body starts with a fresh err
EngineLock(t) ==
    /\ cpc[t] \in {"Start", "Stop"}
    /\ ~InBody(t)
    /\ MutexFree(mutex)
    /\ mutex' = t
    /\ epos' = [epos EXCEPT ![t] = 1]
    /\ err' = FALSE
    /\ ev' = <<>>
    /\ UNCHANGED <<connCfg, m, setupCall, probers, cmvars, pvars, faults, exiting, settings, sub, cpc, wg, task,
                   orphans, gor, rpc, last, estate, passes>>

\* return from Start: the deferred Unlock runs
StartReturn(t, ret) ==
    /\ cpc' = [cpc EXCEPT ![t] = "idle"]
    /\ epos' = [epos EXCEPT ![t] = 0]
    /\ mutex' = 0
    /\ last' = Returns("Start", ret)
    /\ estate' = IF ret = NoErr THEN "Up" ELSE "Failed"
    /\ gor' = GorDetach(gor)

\* ------------------------------------------------------------ Engine.Start
\* the engine drops the handle it held: a live task of that handle is left
\* without an owner
Replace(s) ==
    IF s \in WGSubs /\ task[s] = "live"
    THEN /\ orphans' = orphans + 1
         /\ task' = [task EXCEPT ![s] = "none"]
    ELSE UNCHANGED <<orphans, task>>

\* a sequencer that skips no subsystem
Skip_Never(enable) == FALSE

\* if bot.Settings.EnableX { ... }: the block is skipped when the flag is off
Skip(enable) == enable \notin settings

\* bot.X, err = setupX(...)
StartSetup(t) ==
    /\ AtStart(t, "setup")
    /\ LET s == CurStart(t) IN
         IF Skip(FlagOf(s))
         THEN /\ SkipGroup(t)
              /\ UNCHANGED <<sub, err, ev, orphans, task>>
         ELSE LET ok == Ok("setup", s) IN
                /\ LET good == ok /\ DepsPresent(s) IN
                     /\ sub' = [sub EXCEPT ![s] = SubSetup(good)]
                     /\ err' = ~good
                     /\ Log("setup", s, SetupErr(s, ok))
                /\ Replace(s)
                /\ Adv(t)
    /\ UNCHANGED <<connCfg, m, setupCall, probers, cmvars, pvars, faults, exiting, settings, mutex, cpc, wg,
                   gor, rpc, last, estate, passes>>

\* err = bot.X.Start(): the handle, err, the tracker and the log afterwards
DoStart(s) ==
    LET ok == Ok("start", s) IN
      /\ LET r == SubStart(sub[s], ok) IN
           /\ sub' = [sub EXCEPT ![s] = r.st]
           /\ err' = (r.err # NoErr)
           /\ Log("start", s, r.err)
           /\ IF s \in WGSubs /\ r.err = NoErr
              THEN /\ wg' = wg + 1
                   /\ task' = [task EXCEPT ![s] = "live"]
              ELSE UNCHANGED <<wg, task>>

\* the else branch taken although err is set
StartBranch_Always(e) == TRUE

\* if err != nil { log } else { Start }
StartBranch(e) == ~e

\* if err != nil { log } else { err = bot.X.Start() }
StartCheck(t) ==
    /\ AtStart(t, "check")
    /\ IF StartBranch(err)
       THEN DoStart(CurStart(t))
       ELSE UNCHANGED <<sub, err, ev, wg, task>>
    /\ Adv(t)
    /\ UNCHANGED <<connCfg, m, setupCall, probers, cmvars, pvars, faults, exiting, settings, mutex, cpc,
                   orphans, gor, rpc, last, estate, passes>>

\* a Start the sequencer calls whatever err holds (dispatch.Start, and
\* gctScriptManager.Start after a failed NewManager)
StartAlways(t) ==
    /\ AtStart(t, "start")
    /\ IF ~Skip(FlagOf(CurStart(t)))
       THEN DoStart(CurStart(t))
       ELSE UNCHANGED <<sub, err, ev, wg, task>>
    /\ Adv(t)
    /\ UNCHANGED <<connCfg, m, setupCall, probers, cmvars, pvars, faults, exiting, settings, mutex, cpc,
                   orphans, gor, rpc, last, estate, passes>>

\* if bot.portfolioManager == nil { ... }
StartGuard(t) ==
    /\ AtStart(t, "guard")
    /\ LET s == CurStart(t) IN
         IF Skip(FlagOf(s))
         THEN SkipGroup(t) /\ UNCHANGED ev
         ELSE IF sub[s] # "nil"
         THEN SkipGroup(t) /\ Log("keep", s, NoErr)
         ELSE Adv(t) /\ UNCHANGED ev
    /\ UNCHANGED <<connCfg, m, setupCall, probers, cmvars, pvars, faults, exiting, settings, sub, mutex, cpc,
                   err, wg, task, orphans, gor, rpc, last, estate, passes>>

\* bot.connectionManager, err = setupConnectionManager(&bot.Config.ConnectionMonitor)
StartConnSetup(t) ==
    /\ AtStart(t, "connsetup")
    /\ IF Skip(FlagOf(connectionManager))
       THEN /\ SkipGroup(t)
            /\ UNCHANGED <<connCfg, m, setupCall, err, ev>>
       ELSE LET r == setupConnectionManager("ConnectionMonitor", connCfg) IN
              /\ m' = r.mgr
              /\ connCfg' = r.cfg
              /\ setupCall' = SetupCalled("ConnectionMonitor", r.err)
              /\ err' = (r.err # NoErr)
              /\ Log("setup", connectionManager, r.err)
              /\ Adv(t)
    /\ UNCHANGED <<probers, cmvars, pvars, faults, exiting, settings, sub, mutex, cpc, wg, task, orphans, gor,
                   rpc, last, estate, passes>>

\* what the engine steps of a connectionManager call leave alone
ConnCallRest ==
    <<connCfg, setupCall, qret, hist, overlap, pvars, faults, exiting, settings, sub, mutex,
      cpc, wg, task, orphans, gor, rpc, last, estate, passes>>

\* err = bot.connectionManager.Start(): the caller enters Start, which runs
\* its nil check and the CAS that claims Running (connection_manager.go:66-71)
StartConnCheck(t) ==
    /\ AtStart(t, "conncheck")
    /\ Idle(t)
    /\ IF StartBranch(err)
       THEN LET e == StartEntry(m) IN
              /\ m' = e.m
              /\ IF e.res = "continue"
                 THEN /\ pc' = [pc EXCEPT ![t] = "start_new"]
                      /\ UNCHANGED <<err, ev, epos>>
                 ELSE /\ err' = TRUE
                      /\ Log("start", connectionManager, e.res)
                      /\ Adv(t)
                      /\ UNCHANGED pc
       ELSE /\ Adv(t)
            /\ UNCHANGED <<m, pc, err, ev>>
    /\ UNCHANGED <<probers, lconn, pend, crashed, ConnCallRest>>

\* m.conn, err = connchecker.New(...) inside the Start the engine called; on
\* success Start returns nil to Engine.Start
StartConnNew(t) ==
    /\ AtStart(t, "conncheck")
    /\ pc[t] = "start_new"
    /\ IF Ok("start", connectionManager)
       THEN /\ probers' = Append(probers, NewChecker(TRUE))
            /\ m' = [m EXCEPT !.conn = Len(probers) + 1]
            /\ pc' = [pc EXCEPT ![t] = "idle"]
            /\ err' = FALSE
            /\ Log("start", connectionManager, NoErr)
            /\ Adv(t)
       ELSE /\ m' = [m EXCEPT !.conn = 0]
            /\ pc' = [pc EXCEPT ![t] = "start_rollback"]
            /\ UNCHANGED <<probers, err, ev, epos>>
    /\ UNCHANGED <<lconn, pend, crashed, ConnCallRest>>

\* the rollback CAS of the Start the engine called, and its error return
StartConnRollback(t) ==
    /\ AtStart(t, "conncheck")
    /\ pc[t] = "start_rollback"
    /\ m' = [m EXCEPT !.started = RollbackValue(m.started)]
    /\ pc' = [pc EXCEPT ![t] = "idle"]
    /\ err' = TRUE
    /\ Log("start", connectionManager, errCheckerNew)
    /\ Adv(t)
    /\ UNCHANGED <<probers, lconn, pend, crashed, ConnCallRest>>

\* a hard failure that is only logged
HardFailure_Logged(t, s, ret) ==
    /\ Log("hard", s, ret)
    /\ Adv(t)
    /\ UNCHANGED <<cpc, mutex, last, estate, gor>>

\* return err: the hard failure ends the pass
HardFailure(t, s, ret) ==
    /\ Log("hard", s, ret)
    /\ StartReturn(t, ret)

\* responseMessage, err = bot.Config.SetNTPCheck(os.Stdin)
StartNTPCheck(t) ==
    /\ AtStart(t, "ntpcheck")
    /\ IF Skip(FlagOf(ntpManager))
       THEN /\ SkipGroup(t)
            /\ UNCHANGED <<err, ev, cpc, mutex, last, estate, gor>>
       ELSE IF "NTPLevelZero" \notin settings
       THEN /\ Adv(t)
            /\ UNCHANGED <<err, ev, cpc, mutex, last, estate, gor>>
       ELSE LET ok == Ok("hard", "SetNTPCheck") IN
              /\ err' = ~ok
              /\ IF ok
                 THEN /\ Adv(t)
                      /\ Log("SetNTPCheck", "Config", NoErr)
                      /\ UNCHANGED <<cpc, mutex, last, estate, gor>>
                 ELSE HardFailure(t, "SetNTPCheck", "errSetNTPCheck")
    /\ UNCHANGED <<connCfg, m, setupCall, probers, cmvars, pvars, faults, exiting, settings, sub, wg, task,
                   orphans, rpc, passes>>

\* bot.Config.PurgeExchangeAPICredentials()
StartPurge(t) ==
    /\ AtStart(t, "purge")
    /\ IF "ExchangePurgeCredentials" \in settings
       THEN Log("purge", "Config", NoErr)
       ELSE UNCHANGED ev
    /\ Adv(t)
    /\ UNCHANGED <<connCfg, m, setupCall, probers, cmvars, pvars, faults, exiting, settings, sub, mutex, cpc,
                   err, wg, task, orphans, gor, rpc, last, estate, passes>>

\* err = bot.SetupExchanges()
StartExchanges(t) ==
    /\ AtStart(t, "exchanges")
    /\ LET ok == Ok("hard", ExchangeManager) IN
         /\ err' = ~ok
         /\ IF ok
            THEN /\ Adv(t)
                 /\ Log("setup", ExchangeManager, NoErr)
                 /\ UNCHANGED <<cpc, mutex, last, estate, gor>>
            ELSE HardFailure(t, ExchangeManager, "errSetupExchanges")
    /\ UNCHANGED <<connCfg, m, setupCall, probers, cmvars, pvars, faults, exiting, settings, sub, wg, task,
                   orphans, rpc, passes>>

\* err = currency.RunStorageUpdater(...)
StartStorage(t) ==
    /\ AtStart(t, "storage")
    /\ LET ok == Ok("start", "StorageUpdater") IN
         /\ err' = ~ok
         /\ Log("start", "StorageUpdater", IF ok THEN NoErr ELSE "errStart")
    /\ Adv(t)
    /\ UNCHANGED <<connCfg, m, setupCall, probers, cmvars, pvars, faults, exiting, settings, sub, mutex, cpc,
                   wg, task, orphans, gor, rpc, last, estate, passes>>

\* go StartRPCServer(bot)
StartGRPC(t) ==
    /\ AtStart(t, "grpc")
    /\ IF "EnableGRPC" \in settings
       THEN rpc' = rpc + 1 /\ Log("spawn", "rpcServer", NoErr)
       ELSE UNCHANGED <<rpc, ev>>
    /\ Adv(t)
    /\ UNCHANGED <<connCfg, m, setupCall, probers, cmvars, pvars, faults, exiting, settings, sub, mutex, cpc,
                   err, wg, task, orphans, gor, last, estate, passes>>

\* bot.WithdrawManager, err = SetupWithdrawManager(...)
StartWithdraw(t) ==
    /\ AtStart(t, "withdraw")
    /\ LET ok == Ok("hard", WithdrawManager) IN
         /\ LET good == ok /\ DepsPresent(WithdrawManager) IN
              /\ sub' = [sub EXCEPT ![WithdrawManager] = SubSetup(good)]
              /\ err' = ~good
              /\ IF good
                 THEN /\ Adv(t)
                      /\ Log("setup", WithdrawManager, NoErr)
                      /\ UNCHANGED <<cpc, mutex, last, estate, gor>>
                 ELSE HardFailure(t, WithdrawManager, SetupErr(WithdrawManager, ok))
    /\ UNCHANGED <<connCfg, m, setupCall, probers, cmvars, pvars, faults, exiting, settings, wg, task,
                   orphans, rpc, passes>>

\* filePath, err = config.GetAndMigrateDefaultPath(bot.Settings.ConfigFile)
StartAPIPath(t) ==
    /\ AtStart(t, "apipath")
    /\ IF Skip(FlagOf(RESTServer)) /\ Skip(FlagOf(WebsocketServer))
       THEN /\ SkipGroup(t)
            /\ UNCHANGED <<err, ev, cpc, mutex, last, estate, gor>>
       ELSE LET ok == Ok("hard", "GetAndMigrateDefaultPath") IN
              /\ err' = ~ok
              /\ IF ok
                 THEN /\ Adv(t)
                      /\ UNCHANGED <<ev, cpc, mutex, last, estate, gor>>
                 ELSE HardFailure(t, "GetAndMigrateDefaultPath", "errConfigPath")
    /\ UNCHANGED <<connCfg, m, setupCall, probers, cmvars, pvars, faults, exiting, settings, sub, wg, task,
                   orphans, rpc, passes>>

\* bot.apiServer, err = setupAPIServerManager(...)
StartAPISetup(t) ==
    /\ AtStart(t, "apisetup")
    /\ LET ok == Ok("setup", "apiServer") IN
         /\ LET good == ok /\ DepsPresent(RESTServer) IN
              /\ sub' = [sub EXCEPT ![RESTServer] = SubSetup(good),
                                    ![WebsocketServer] = SubSetup(good)]
              /\ err' = ~good
              /\ Log("setup", "apiServer", SetupErr(RESTServer, ok))
    /\ Adv(t)
    /\ UNCHANGED <<connCfg, m, setupCall, probers, cmvars, pvars, faults, exiting, settings, mutex, cpc, wg,
                   task, orphans, gor, rpc, last, estate, passes>>

\* else { if EnableDeprecatedRPC { err = bot.apiServer.StartRESTServer() } ...
StartAPIREST(t) ==
    /\ AtStart(t, "apirest")
    /\ IF ~StartBranch(err)
       THEN /\ SkipGroup(t)
            /\ UNCHANGED <<sub, err, ev, wg, task>>
       ELSE /\ Adv(t)
            /\ IF ~Skip(FlagOf(RESTServer))
               THEN DoStart(RESTServer)
               ELSE UNCHANGED <<sub, err, ev, wg, task>>
    /\ UNCHANGED <<connCfg, m, setupCall, probers, cmvars, pvars, faults, exiting, settings, mutex, cpc,
                   orphans, gor, rpc, last, estate, passes>>

\* ... if EnableWebsocketRPC { err = bot.apiServer.StartWebsocketServer() } }
StartAPIWebsocket(t) ==
    /\ AtStart(t, "apiws")
    /\ IF ~Skip(FlagOf(WebsocketServer))
       THEN DoStart(WebsocketServer)
       ELSE UNCHANGED <<sub, err, ev, wg, task>>
    /\ Adv(t)
    /\ UNCHANGED <<connCfg, m, setupCall, probers, cmvars, pvars, faults, exiting, settings, mutex, cpc,
                   orphans, gor, rpc, last, estate, passes>>

\* bot.DepositAddressManager = SetupDepositAddressManager(); go func() {...}()
StartDeposit(t) ==
    /\ AtStart(t, "deposit")
    /\ IF ~Skip(FlagOf(DepositAddressManager))
       THEN /\ sub' = [sub EXCEPT ![DepositAddressManager] = "stopped"]
            /\ gor' = [gor EXCEPT !.deposit = TRUE]
            /\ Log("spawn", DepositAddressManager, NoErr)
       ELSE UNCHANGED <<sub, gor, ev>>
    /\ Adv(t)
    /\ UNCHANGED <<connCfg, m, setupCall, probers, cmvars, pvars, faults, exiting, settings, mutex, cpc, err,
                   wg, task, orphans, rpc, last, estate, passes>>

\* else { go func() { err = bot.currencyPairSyncer.Start() ... }() }
StartSpawn(t) ==
    /\ AtStart(t, "spawn")
    /\ IF StartBranch(err)
       THEN /\ gor' = [gor EXCEPT !.syncer = TRUE]
            /\ Log("spawn", CurStart(t), NoErr)
       ELSE UNCHANGED <<gor, ev>>
    /\ Adv(t)
    /\ UNCHANGED <<connCfg, m, setupCall, probers, cmvars, pvars, faults, exiting, settings, sub, mutex, cpc,
                   err, wg, task, orphans, rpc, last, estate, passes>>

\* return nil
StartRet(t) ==
    /\ AtStart(t, "ret")
    /\ StartReturn(t, NoErr)
    /\ UNCHANGED <<connCfg, m, setupCall, probers, cmvars, pvars, faults, exiting, settings, sub, err, wg,
                   task, orphans, rpc, ev, passes>>

\* ------------------------------------------------------------ goroutines
\* err = bot.DepositAddressManager.Sync(...): the goroutine assigns the err
\* of the Start that spawned it, with no synchronisation
DepositSyncRun ==
    /\ gor.deposit
    /\ err' = ~Ok("sync", DepositAddressManager)
    /\ gor' = [gor EXCEPT !.deposit = FALSE]
    /\ UNCHANGED <<connCfg, m, setupCall, probers, cmvars, pvars, faults, exiting, settings, sub, mutex, cpc,
                   epos, wg, task, orphans, rpc, ev, last, estate, passes>>

\* err = bot.currencyPairSyncer.Start(), on the handle the engine holds when
\* the goroutine runs
SyncerStartRun ==
    /\ gor.syncer \/ gor.syncerOld > 0
    /\ \E cur \in {TRUE, FALSE} :
         LET ok == Ok("start", currencyPairSyncer) IN
         /\ IF cur THEN gor.syncer ELSE gor.syncerOld > 0
         /\ LET r == SubStart(sub[currencyPairSyncer], ok) IN
              /\ sub' = [sub EXCEPT ![currencyPairSyncer] = r.st]
              /\ IF cur THEN err' = (r.err # NoErr) ELSE UNCHANGED err
         /\ gor' = IF cur THEN [gor EXCEPT !.syncer = FALSE]
                          ELSE [gor EXCEPT !.syncerOld = @ - 1]
    /\ UNCHANGED <<connCfg, m, setupCall, probers, cmvars, pvars, faults, exiting, settings, mutex, cpc, epos,
                   wg, task, orphans, rpc, ev, last, estate, passes>>

\* the background task of a stopped subsystem sees the stop signal and
\* exits: wg.Done()
TaskExit ==
    /\ exiting > 0
    /\ exiting' = exiting - 1
    /\ wg' = wg - 1
    /\ UNCHANGED <<connCfg, m, setupCall, probers, cmvars, pvars, faults, settings, sub, mutex,
                   cpc, epos, err, task, orphans, gor, rpc, ev, last, estate, passes>>

\* ------------------------------------------------------------ Engine.Stop
\* if len(bot.portfolioManager.GetAddresses()) != 0 { bot.Config.Portfolio = ... }
StopCapture(t) ==
    /\ AtStop(t, "capture")
    /\ IF Running(portfolioManager) /\ "HasAddresses" \in settings
       THEN Log("capture", portfolioManager, NoErr)
       ELSE UNCHANGED ev
    /\ Adv(t)
    /\ UNCHANGED <<connCfg, m, setupCall, probers, cmvars, pvars, faults, exiting, settings, sub, mutex, cpc,
                   err, wg, task, orphans, gor, rpc, last, estate, passes>>

\* Stop called whatever IsRunning answered
StopBranch_Always(r) == TRUE

\* if bot.X.IsRunning() { ... }
StopBranch(r) == r

\* if bot.X.IsRunning() { if err := bot.X.Stop(); err != nil { log } }
StopSub(t) ==
    /\ AtStop(t, "stop")
    /\ LET s == CurStop(t) IN
         IF StopBranch(Running(s))
         THEN LET ok == Ok("stop", s) IN
                /\ LET r == SubStop(sub[s], ok) IN
                     /\ sub' = [sub EXCEPT ![s] = r.st]
                     /\ ev' = ev \o << Event("ask", s, Running(s)),
                                       Event("stop", s, r.err) >>
                /\ IF s \in WGSubs /\ task[s] = "live"
                   THEN /\ task' = [task EXCEPT ![s] = "none"]
                        /\ exiting' = exiting + 1
                   ELSE UNCHANGED <<task, exiting>>
         ELSE /\ Log("ask", s, Running(s))
              /\ UNCHANGED <<sub, task, exiting>>
    /\ Adv(t)
    /\ UNCHANGED <<connCfg, m, setupCall, probers, cmvars, pvars, faults, settings, mutex, cpc, err,
                   wg, orphans, gor, rpc, last, estate, passes>>

\* if bot.connectionManager.IsRunning() { ... }: the test alone
StopConn(t) ==
    /\ AtStop(t, "connstop")
    /\ Idle(t)
    /\ Log("ask", connectionManager, Running(connectionManager))
    /\ IF StopBranch(Running(connectionManager))
       THEN /\ pc' = [pc EXCEPT ![t] = "stop_call"]
            /\ UNCHANGED epos
       ELSE /\ Adv(t)
            /\ UNCHANGED pc
    /\ UNCHANGED <<m, probers, err, lconn, pend, crashed, ConnCallRest>>

\* bot.connectionManager.Stop() is entered: nil check and load of started
StopConnEntry(t) ==
    /\ AtStop(t, "connstop")
    /\ pc[t] = "stop_call"
    /\ LET e == StopEntry(m) IN
         /\ m' = e.m
         /\ IF e.res = "continue"
            THEN /\ pc' = [pc EXCEPT ![t] = "stop_chk"]
                 /\ UNCHANGED <<ev, epos>>
            ELSE /\ pc' = [pc EXCEPT ![t] = "idle"]
                 /\ Log("stop", connectionManager, e.res)
                 /\ Adv(t)
    /\ UNCHANGED <<probers, err, lconn, pend, crashed, ConnCallRest>>

\* if m.conn == nil inside the Stop the engine called
StopConnChk(t) ==
    /\ AtStop(t, "connstop")
    /\ pc[t] = "stop_chk"
    /\ lconn' = [lconn EXCEPT ![t] = m.conn]
    /\ pend' = [pend EXCEPT ![t] = StopConnCheck(m.conn).pend]
    /\ pc' = [pc EXCEPT ![t] = StopConnCheck(m.conn).pc]
    /\ UNCHANGED <<m, probers, err, ev, epos, crashed, ConnCallRest>>

\* m.conn.Shutdown() inside the Stop the engine called
StopConnShutdown(t) ==
    /\ AtStop(t, "connstop")
    /\ pc[t] = "stop_shutdown"
    /\ \E c \in {lconn[t], m.conn} :
         IF c = 0
         THEN /\ pend' = [pend EXCEPT ![t] = Panic]
              /\ UNCHANGED <<probers, lconn>>
         ELSE /\ probers' = [probers EXCEPT ![c] = CheckerShutdown(@)]
              /\ lconn' = [lconn EXCEPT ![t] = c]
              /\ pend' = [pend EXCEPT ![t] = NoErr]
    /\ pc' = [pc EXCEPT ![t] = "stop_defer"]
    /\ UNCHANGED <<m, err, ev, epos, crashed, ConnCallRest>>

\* the deferred CAS of the Stop the engine called, and its return: the
\* error is logged and the shutdown goes on
StopConnDefer(t) ==
    /\ AtStop(t, "connstop")
    /\ pc[t] = "stop_defer"
    /\ m' = [m EXCEPT !.started = StopClearValue(m.started)]
    /\ pc' = [pc EXCEPT ![t] = "idle"]
    /\ Log("stop", connectionManager, pend[t])
    /\ crashed' = (pend[t] = Panic)
    /\ lconn' = [lconn EXCEPT ![t] = 0]
    /\ pend' = [pend EXCEPT ![t] = NoErr]
    /\ Adv(t)
    /\ UNCHANGED <<probers, err, ConnCallRest>>

\* if err := currency.ShutdownStorageUpdater(); err != nil { log }
StopStorage(t) ==
    /\ AtStop(t, "storage")
    /\ LET ok == Ok("stop", "StorageUpdater") IN
         /\ Log("stop", "StorageUpdater", IF ok THEN NoErr ELSE "errStop")
    /\ Adv(t)
    /\ UNCHANGED <<connCfg, m, setupCall, probers, cmvars, pvars, faults, exiting, settings, sub, mutex, cpc,
                   err, wg, task, orphans, gor, rpc, last, estate, passes>>

\* a save that runs in dry-run mode too
SaveWanted_Always(set) == TRUE

\* if !bot.Settings.EnableDryRun
SaveWanted(set) == "EnableDryRun" \notin set

\* err := bot.Config.SaveConfigToFile(bot.Settings.ConfigFile)
StopSave(t) ==
    /\ AtStop(t, "save")
    /\ IF SaveWanted(settings)
       THEN LET ok == Ok("save", "Config") IN
              /\ Log("save", "Config", IF ok THEN NoErr ELSE "errSave")
       ELSE UNCHANGED <<ev>>
    /\ Adv(t)
    /\ UNCHANGED <<connCfg, m, setupCall, probers, cmvars, pvars, faults, exiting, settings, sub, mutex, cpc,
                   err, wg, task, orphans, gor, rpc, last, estate, passes>>

\* a Wait that returns whatever the counter holds
WaitDone_Always(w) == TRUE

\* sync.WaitGroup.Wait returns only when the counter is zero
WaitDone(w) == w = 0

\* bot.ServicesWG.Wait()
StopWait(t) ==
    /\ AtStop(t, "wait")
    /\ WaitDone(wg)
    /\ Log("wait", "ServicesWG", NoErr)
    /\ Adv(t)
    /\ UNCHANGED <<connCfg, m, setupCall, probers, cmvars, pvars, faults, exiting, settings, sub, mutex, cpc,
                   err, wg, task, orphans, gor, rpc, last, estate, passes>>

\* gctlog.CloseLogger(), then the deferred Unlock and the return
StopCloseLogger(t) ==
    /\ AtStop(t, "closelog")
    /\ Log("closelog", "Logger", NoErr)
    /\ cpc' = [cpc EXCEPT ![t] = "idle"]
    /\ epos' = [epos EXCEPT ![t] = 0]
    /\ mutex' = 0
    /\ last' = Returns("Stop", NoErr)
    /\ estate' = "Idle"
    /\ UNCHANGED <<connCfg, m, setupCall, probers, cmvars, pvars, faults, exiting, settings, sub, err, wg,
                   task, orphans, gor, rpc, passes>>

\* ------------------------------------------------------------ engine spec
\* the runs that are explored: the settings, and the collaborator calls that
\* fail (a call that is in the set fails whenever it is made)
Fault(op, s) == <<op, s>>
FaultInputs ==
    { {},
      {Fault("setup", DatabaseManager)},
      {Fault("start", DatabaseManager)},
      {Fault("start", connectionManager)},
      {Fault("hard", "SetNTPCheck")},
      {Fault("hard", ExchangeManager)},
      {Fault("hard", WithdrawManager)},
      {Fault("hard", "GetAndMigrateDefaultPath")},
      {Fault("start", "StorageUpdater")},
      {Fault("sync", DepositAddressManager)},
      {Fault("setup", OrderManager)},
      {Fault("start", currencyPairSyncer)},
      {Fault("setup", eventManager)},
      {Fault("setup", gctScriptManager)},
      {Fault("stop", OrderManager)},
      {Fault("stop", "StorageUpdater")},
      {Fault("save", "Config")},
      {Fault("start", CommunicationsManager), Fault("hard", WithdrawManager)} }
Scenario(set, flt) == [settings |-> set, faults |-> flt]
Scenarios ==
    {Scenario(AllEnabled, f) : f \in FaultInputs}
      \cup {Scenario(set, {}) : set \in SettingsInputs}
      \cup {Scenario(set, {Fault("save", "Config")}) : set \in SettingsInputs}

InitEngine ==
    /\ connCfg = [DNSList |-> NilSlice, PublicDomainList |-> NilSlice, CheckInterval |-> 0]
    /\ m = NilManager
    /\ setupCall = [arg |-> "none", err |-> "none", replaced |-> FALSE]
    /\ probers = <<>>
    /\ pc = [t \in Threads |-> "idle"]
    /\ lconn = [t \in Threads |-> 0]
    /\ pend = [t \in Threads |-> NoErr]
    /\ qret = [op |-> "none", res |-> "none"]
    /\ hist = <<>>
    /\ overlap = FALSE
    /\ crashed = FALSE
    /\ PackageIdle
    /\ \/ \E sc \in Scenarios : EngineInit(sc.settings, sc.faults)
       \/ \E flt \in {{}, {Fault("save", "Config")}} : EngineNew(flt)

NextEngine ==
    \/ \E t \in Callers : EngineCall(t)
    \/ \E t \in Callers : EngineStartNil(t)
    \/ \E t \in Callers : EngineLock(t)
    \/ \E t \in Callers : StartSetup(t)
    \/ \E t \in Callers : StartCheck(t)
    \/ \E t \in Callers : StartAlways(t)
    \/ \E t \in Callers : StartGuard(t)
    \/ \E t \in Callers : StartConnSetup(t)
    \/ \E t \in Callers : StartConnCheck(t)
    \/ \E t \in Callers : StartConnNew(t)
    \/ \E t \in Callers : StartConnRollback(t)
    \/ \E t \in Callers : StartNTPCheck(t)
    \/ \E t \in Callers : StartPurge(t)
    \/ \E t \in Callers : StartExchanges(t)
    \/ \E t \in Callers : StartStorage(t)
    \/ \E t \in Callers : StartGRPC(t)
    \/ \E t \in Callers : StartWithdraw(t)
    \/ \E t \in Callers : StartAPIPath(t)
    \/ \E t \in Callers : StartAPISetup(t)
    \/ \E t \in Callers : StartAPIREST(t)
    \/ \E t \in Callers : StartAPIWebsocket(t)
    \/ \E t \in Callers : StartDeposit(t)
    \/ \E t \in Callers : StartSpawn(t)
    \/ \E t \in Callers : StartRet(t)
    \/ DepositSyncRun
    \/ SyncerStartRun
    \/ TaskExit
    \/ \E t \in Callers : StopCapture(t)
    \/ \E t \in Callers : StopSub(t)
    \/ \E t \in Callers : StopConn(t)
    \/ \E t \in Callers : StopConnEntry(t)
    \/ \E t \in Callers : StopConnChk(t)
    \/ \E t \in Callers : StopConnShutdown(t)
    \/ \E t \in Callers : StopConnDefer(t)
    \/ \E t \in Callers : StopStorage(t)
    \/ \E t \in Callers : StopSave(t)
    \/ \E t \in Callers : StopWait(t)
    \/ \E t \in Callers : StopCloseLogger(t)

SpecEngine == InitEngine /\ [][NextEngine]_vars

\* one statement of the Start or Stop body that caller t is in
Sequencer(t) ==
    \/ StartSetup(t) \/ StartCheck(t) \/ StartAlways(t) \/ StartGuard(t)
    \/ StartConnSetup(t) \/ StartConnCheck(t) \/ StartConnNew(t)
    \/ StartConnRollback(t) \/ StartNTPCheck(t)
    \/ StartPurge(t) \/ StartExchanges(t) \/ StartStorage(t) \/ StartGRPC(t)
    \/ StartWithdraw(t) \/ StartAPIPath(t) \/ StartAPISetup(t)
    \/ StartAPIREST(t) \/ StartAPIWebsocket(t) \/ StartDeposit(t)
    \/ StartSpawn(t) \/ StartRet(t)
    \/ StopCapture(t) \/ StopSub(t) \/ StopConn(t) \/ StopConnEntry(t)
    \/ StopConnChk(t) \/ StopConnShutdown(t) \/ StopConnDefer(t) \/ StopStorage(t)
    \/ StopSave(t) \/ StopWait(t) \/ StopCloseLogger(t)

\* the Go scheduler runs every runnable goroutine, and a sync.Mutex hands
\* the lock to a waiter that keeps finding it free (starvation mode)
EngineFairness ==
    /\ \A t \in Callers : WF_vars(Sequencer(t)) /\ SF_vars(EngineLock(t))
    /\ WF_vars(DepositSyncRun) /\ WF_vars(SyncerStartRun) /\ WF_vars(TaskExit)

\* the runs of the liveness check: every subsystem enabled, so that every
\* tracked task exists, with no failure, with a hard failure, and with a
\* failing Stop after a connection checker that could not be created
FairScenarios ==
    {Scenario(AllEnabled, f) :
       f \in { {}, {Fault("hard", WithdrawManager)},
               {Fault("stop", OrderManager), Fault("start", connectionManager)} }}
InitEngineFair ==
    /\ connCfg = [DNSList |-> NilSlice, PublicDomainList |-> NilSlice, CheckInterval |-> 0]
    /\ m = NilManager
    /\ setupCall = [arg |-> "none", err |-> "none", replaced |-> FALSE]
    /\ probers = <<>>
    /\ pc = [t \in Threads |-> "idle"]
    /\ lconn = [t \in Threads |-> 0]
    /\ pend = [t \in Threads |-> NoErr]
    /\ qret = [op |-> "none", res |-> "none"]
    /\ hist = <<>>
    /\ overlap = FALSE
    /\ crashed = FALSE
    /\ PackageIdle
    /\ \E sc \in FairScenarios : EngineInit(sc.settings, sc.faults)
SpecEngineFair == InitEngineFair /\ [][NextEngine]_vars /\ EngineFairness

\* the engine with goroutines that query the connection manager while the
\* sequencers run
NextEngineQuery ==
    \/ NextEngine
    \/ \E t \in Threads : IsRunning(t)
SpecEngineQuery == InitEngineFair /\ [][NextEngineQuery]_vars

\* ------------------------------------------------------------ Config.Save
\* if err != nil the call goes on all the same
SaveNext_Ignore(ok, next) == next

\* if err != nil { return err }
SaveNext(ok, next) == IF ok THEN next ELSE "done"
SaveOk(call) == call \notin save.fails
SaveErr(call) == IF SaveOk(call) THEN save.ret ELSE "err_" \o call
cvars == <<connCfg, m, setupCall, probers>>

\* payload, err := json.MarshalIndent(c, "", " ")
SaveMarshal ==
    /\ save.pos = "marshal"
    /\ LET ok == SaveOk("marshal") IN
         save' = [save EXCEPT
            !.payload = IF ok THEN "json" ELSE @,
            !.ret = SaveErr("marshal"),
            !.pos = SaveNext(ok,
                      IF save.EncryptConfig # fileEncryptionEnabled THEN "writer"
                      ELSE IF ~save.sessionDK THEN "key" ELSE "encrypt")]
    /\ UNCHANGED <<cvars, cmvars, evars, flag, load, http>>

\* key, err = keyProvider()
SaveKey ==
    /\ save.pos = "key"
    /\ save' = [save EXCEPT
          !.keyCalls = @ + 1,
          !.ret = SaveErr("key"),
          !.pos = SaveNext(SaveOk("key"), "derive")]
    /\ UNCHANGED <<cvars, cmvars, evars, flag, load, http>>

\* sessionDK, storedSalt, err = makeNewSessionDK(key)
SaveDerive ==
    /\ save.pos = "derive"
    /\ LET ok == SaveOk("derive") IN
         save' = [save EXCEPT
            !.sessionDK = ok,
            !.ret = SaveErr("derive"),
            !.pos = SaveNext(ok, "encrypt")]
    /\ UNCHANGED <<cvars, cmvars, evars, flag, load, http>>

\* payload, err = c.encryptConfigFile(payload)
SaveEncrypt ==
    /\ save.pos = "encrypt"
    /\ LET ok == SaveOk("encrypt") IN
         save' = [save EXCEPT
            !.payload = IF ok THEN "cipher" ELSE "none",
            !.ret = SaveErr("encrypt"),
            !.pos = SaveNext(ok, "writer")]
    /\ UNCHANGED <<cvars, cmvars, evars, flag, load, http>>

\* configWriter, err := writerProvider()
SaveWriter ==
    /\ save.pos = "writer"
    /\ save' = [save EXCEPT
          !.writerCalls = @ + 1,
          !.ret = SaveErr("writer"),
          !.pos = SaveNext(SaveOk("writer"), "copy")]
    /\ UNCHANGED <<cvars, cmvars, evars, flag, load, http>>

\* _, err = io.Copy(configWriter, bytes.NewReader(payload)); return err
SaveCopy ==
    /\ save.pos = "copy"
    /\ LET ok == SaveOk("copy") IN
         save' = [save EXCEPT
            !.written = IF ok THEN save.payload ELSE "partial",
            !.ret = IF ok THEN NoErr ELSE "err_copy",
            !.pos = "done"]
    /\ UNCHANGED <<cvars, cmvars, evars, flag, load, http>>

InitSave ==
    /\ connCfg = [DNSList |-> NilSlice, PublicDomainList |-> NilSlice, CheckInterval |-> 0]
    /\ m = NilManager
    /\ setupCall = [arg |-> "none", err |-> "none", replaced |-> FALSE]
    /\ probers = <<>>
    /\ pc = [t \in Threads |-> "idle"]
    /\ lconn = [t \in Threads |-> 0]
    /\ pend = [t \in Threads |-> NoErr]
    /\ qret = [op |-> "none", res |-> "none"]
    /\ hist = <<>>
    /\ overlap = FALSE
    /\ crashed = FALSE
    /\ EngineInit({}, {})
    /\ flag = FlagIdle
    /\ load = LoadIdle
    /\ http = HttpIdle
    /\ \E enc \in EncryptInputs, dk \in BOOLEAN, fails \in SUBSET SaveCalls :
          save = SaveStart(enc, dk, fails)
NextSave ==
    \/ SaveMarshal
    \/ SaveKey
    \/ SaveDerive
    \/ SaveEncrypt
    \/ SaveWriter
    \/ SaveCopy
SpecSave == InitSave /\ [][NextSave]_vars

\* ------------------------------------------------------------ FlagSet.WithBool
\* the config value whatever the command line says
WithBool_ConfigOnly(f, key, flagValue, configValue) == configValue

\* isSet := f[key]; *flagValue = !isSet && configValue || isSet && *flagValue
WithBool(f, key, flagValue, configValue) ==
    LET isSet == MapGet(f, key) IN
      (~isSet /\ configValue) \/ (isSet /\ flagValue)

WithBoolCall ==
    /\ flag.pos = "call"
    /\ flag' = [flag EXCEPT
          !.flagValue = WithBool(flag.f, flag.key, flag.flagValue, flag.configValue),
          !.pos = "done"]
    /\ UNCHANGED <<cvars, cmvars, evars, save, load, http>>

InitFlags ==
    /\ connCfg = [DNSList |-> NilSlice, PublicDomainList |-> NilSlice, CheckInterval |-> 0]
    /\ m = NilManager
    /\ setupCall = [arg |-> "none", err |-> "none", replaced |-> FALSE]
    /\ probers = <<>>
    /\ pc = [t \in Threads |-> "idle"]
    /\ lconn = [t \in Threads |-> 0]
    /\ pend = [t \in Threads |-> NoErr]
    /\ qret = [op |-> "none", res |-> "none"]
    /\ hist = <<>>
    /\ overlap = FALSE
    /\ crashed = FALSE
    /\ EngineInit({}, {})
    /\ save = SaveIdle
    /\ load = LoadIdle
    /\ http = HttpIdle
    /\ \E f \in FlagSets, key \in FlagKeys, fv \in BOOLEAN, cv \in BOOLEAN :
          flag = FlagStart(f, key, fv, cv)
NextFlags == WithBoolCall
SpecFlags == InitFlags /\ [][NextFlags]_vars

\* ------------------------------------------------------------ observations
StartPcs == {"start_new", "start_rollback"}
StopPcs == {"stop_chk", "stop_shutdown", "stop_defer"}
\* no Start/Stop call is in progress
Quiescent == \A t \in Threads : ~InLifecycle(t)
\* number of returned calls of op with result r
Count(op, r) == Cardinality({i \in 1..Len(hist) : hist[i] = [op |-> op, res |-> r]})
\* every call so far was made on a set-up manager
AllOnSetUp == \A i \in 1..Len(hist) : hist[i].res # ErrNilSubsystem
\* every call so far was made on one and the same manager: no Setup has
\* replaced a manager the handle held
OneManager == ~setupCall.replaced
\* no prober construction has failed
NoNewFailure ==
    /\ \A i \in 1..Len(hist) : hist[i].res # errCheckerNew
    /\ \A t \in Threads : pc[t] # "start_rollback"
\* only Start has been called
OnlyStarts ==
    /\ \A i \in 1..Len(hist) : hist[i].op = "Start"
    /\ \A t \in Threads : pc[t] \notin StopPcs
\* the step appends one returned call to hist
Returned == Len(hist') = Len(hist) + 1
LastReturn == hist'[Len(hist')]

TypeOK ==
    /\ m.started \in {0, 1}
    /\ m.conn \in 0..Len(probers)
    /\ \A t \in Threads : lconn[t] \in 0..Len(probers)

\* ------------------------------------------------------------ claims

\* C1: when goroutines race Start() on a set-up, Stopped subsystem and the
\* prober construction succeeds, at most one call claims Running and
\* constructs a prober; once all calls have returned exactly one returned nil,
\* all others returned ErrSubSystemAlreadyStarted, the state is Running and
\* exactly one prober exists, live and installed in m.conn.
C1_StartRace ==
    (OneManager /\ OnlyStarts /\ AllOnSetUp /\ NoNewFailure) =>
        /\ Count("Start", NoErr) <= 1
        /\ Len(probers) <= 1
        /\ Cardinality({t \in Threads : pc[t] \in StartPcs}) <= 1
        /\ \A i \in 1..Len(hist) : hist[i].res \in {NoErr, ErrSubSystemAlreadyStarted}
        /\ (Quiescent /\ Len(hist) >= 1) =>
               /\ Count("Start", NoErr) = 1
               /\ Count("Start", ErrSubSystemAlreadyStarted) = Len(hist) - 1
               /\ m.started = 1
               /\ Len(probers) = 1
               /\ m.conn = 1
               /\ probers[1].state = "live"

\* C1 witness: three Start calls raced (one began while another was in
\* progress), all have returned, one of them with nil
C1_Witness ==
    /\ OneManager
    /\ OnlyStarts /\ AllOnSetUp /\ NoNewFailure /\ Quiescent
    /\ overlap
    /\ Len(hist) >= 3
    /\ Count("Start", NoErr) = 1

\* C2 (as claimed): when Stop() calls race on a Running subsystem that one
\* Start brought up, at most one of them returns nil and the prober's
\* Shutdown is invoked at most once.
C2_StopRaceExactlyOne ==
    (/\ OneManager
     /\ Len(hist) >= 1
     /\ hist[1] = [op |-> "Start", res |-> NoErr]
     /\ \A i \in 2..Len(hist) : hist[i].op = "Stop"
     /\ \A t \in Threads : pc[t] \notin StartPcs) =>
        /\ Count("Stop", NoErr) <= 1
        /\ probers[1].shutdowns <= 1

\* C3: two Start() calls in sequence on a set-up subsystem return nil and then
\* ErrSubSystemAlreadyStarted; after the second, one prober exists and it is
\* still the one the first call installed, live, with the state Running.
C3_StartTwice ==
    (/\ OneManager
     /\ Len(hist) = 2
     /\ hist[1] = [op |-> "Start", res |-> NoErr]
     /\ hist[2].op = "Start"
     /\ \A t \in Threads : pc[t] \notin StopPcs) =>
        /\ hist[2].res = ErrSubSystemAlreadyStarted
        /\ Quiescent
        /\ Len(probers) = 1
        /\ m.conn = 1
        /\ probers[1].state = "live"
        /\ m.started = 1

\* C3 witness: Start returned nil, then a second Start returned
C3_Witness ==
    /\ OneManager
    /\ Len(hist) = 2
    /\ hist[1] = [op |-> "Start", res |-> NoErr]
    /\ hist[2] = [op |-> "Start", res |-> ErrSubSystemAlreadyStarted]
    /\ ~overlap
    /\ Quiescent

\* C4: a Start() whose prober construction failed returns that error with the
\* flag rolled back, so that IsRunning() is false once it has returned, and
\* the next Start() in sequence is not rejected with ErrSubSystemAlreadyStarted.
C4_FailedStartRollsBack ==
    \A i \in 1..Len(hist) :
        (OneManager /\ hist[i] = [op |-> "Start", res |-> errCheckerNew]) =>
            /\ (i = Len(hist) /\ Quiescent) => ~IsRunningValue(m)
            /\ (~overlap /\ i < Len(hist) /\ hist[i + 1].op = "Start") =>
                   hist[i + 1].res \in {NoErr, errCheckerNew}

\* C4 witness: a failed Start was followed, in sequence, by a Start that
\* returned nil
C4_Witness ==
    /\ OneManager
    /\ ~overlap
    /\ Len(hist) >= 2
    /\ hist[1] = [op |-> "Start", res |-> errCheckerNew]
    /\ hist[2] = [op |-> "Start", res |-> NoErr]

\* the calls so far are Start, Stop, Start, Stop, ... in this order
Alternating ==
    \A i \in 1..Len(hist) : hist[i].op = (IF i % 2 = 1 THEN "Start" ELSE "Stop")

\* C5: on a set-up subsystem, with the prober construction succeeding, the
\* sequential calls Start, Stop, Start, Stop, ... all return nil, and after
\* each the state is Running resp. Stopped with a live resp. shut-down prober.
C5_RoundTrip ==
    (OneManager /\ ~overlap /\ AllOnSetUp /\ NoNewFailure /\ Alternating) =>
        /\ \A i \in 1..Len(hist) : hist[i].res = NoErr
        /\ (Quiescent /\ Len(hist) >= 1) =>
               /\ m.started = Len(hist) % 2
               /\ Len(probers) = (Len(hist) + 1) \div 2
               /\ m.conn = Len(probers)
               /\ probers[m.conn].state = (IF Len(hist) % 2 = 1 THEN "live" ELSE "closed")

\* C5 witness: Start, Stop, Start in sequence, the subsystem Running again
C5_Witness ==
    /\ OneManager
    /\ ~overlap /\ AllOnSetUp /\ NoNewFailure /\ Alternating
    /\ Quiescent
    /\ Len(hist) >= 3
    /\ m.started = 1

\* the step is the entry of a Stop call
StopCallStep ==
    \/ \E t \in Threads : pc[t] = "idle" /\ pc' = [pc EXCEPT ![t] = "stop_chk"]
    \/ pc' = pc /\ Returned /\ LastReturn.op = "Stop"

\* C6: a Stop() that enters while the set-up subsystem is not Running returns
\* ErrSubSystemNotStarted at once and changes neither the flag, nor the
\* prober handle, nor any prober (no Shutdown).
C6_StopNotRunning ==
    [][(StopCallStep /\ ~m.isNil /\ m.started = 0) =>
          /\ pc' = pc
          /\ hist' = Append(hist, [op |-> "Stop", res |-> ErrSubSystemNotStarted])
          /\ m' = m
          /\ probers' = probers]_vars

\* C6 witness: Stop before any Start returned ErrSubSystemNotStarted
C6_Witness ==
    /\ ~m.isNil
    /\ Len(hist) = 1
    /\ hist[1] = [op |-> "Stop", res |-> ErrSubSystemNotStarted]
    /\ m.started = 0

\* C7: while the manager is nil, Start() and Stop() return ErrNilSubsystem,
\* IsRunning() and IsOnline() return false, no call faults and no call
\* changes the handle, a prober or the configuration.
C7_NilManager ==
    [][(m.isNil /\ setupCall' = setupCall) =>
          /\ m' = m /\ pc' = pc /\ probers' = probers /\ connCfg' = connCfg
          /\ ~crashed'
          /\ (hist' # hist) =>
                 /\ Returned
                 /\ hist' = Append(hist, LastReturn)
                 /\ LastReturn.res = ErrNilSubsystem
          /\ (qret' # qret) => qret'.res = "false"]_vars

\* C7 witness: Start, Stop and IsOnline have returned on a nil manager
C7_Witness ==
    /\ m.isNil
    /\ Count("Start", ErrNilSubsystem) >= 1
    /\ Count("Stop", ErrNilSubsystem) >= 1
    /\ qret = [op |-> "IsOnline", res |-> "false"]

LifecycleErrors == {ErrSubSystemAlreadyStarted, ErrSubSystemNotStarted, ErrNilSubsystem}

\* C8: the step in which a Start() or Stop() returns a lifecycle-state error
\* is the only step of that call, and it changes neither the manager (flag,
\* prober handle) nor any prober, whatever the other goroutines are doing.
C8_LifecycleErrorFrame ==
    [][(Returned /\ LastReturn.res \in LifecycleErrors) =>
          /\ pc' = pc
          /\ m' = m
          /\ probers' = probers]_vars

\* C8 witness: both rejections have been returned in a run with overlapping calls
C8_Witness ==
    /\ overlap
    /\ \E i \in 1..Len(hist) : hist[i].res = ErrSubSystemAlreadyStarted
    /\ \E i \in 1..Len(hist) : hist[i].res = ErrSubSystemNotStarted

\* C9: in the step in which Stop() returns nil, the prober it shut down has
\* completed its Shutdown, and the flag is not Running after the step.
C9_StopSynchronous ==
    [][(Returned /\ LastReturn = [op |-> "Stop", res |-> NoErr]) =>
          /\ \E t \in Threads :
                /\ pc[t] = "stop_defer" /\ pc'[t] = "idle"
                /\ lconn[t] # 0
                /\ probers[lconn[t]].state = "closed"
                /\ probers[lconn[t]].shutdowns >= 1
          /\ ~IsRunningValue(m')]_vars

\* C9 witness: the last call to return is a Stop that returned nil
C9_Witness ==
    /\ Len(hist) >= 2
    /\ hist[Len(hist)] = [op |-> "Stop", res |-> NoErr]
    /\ Quiescent
    /\ ~IsRunningValue(m)

\* C10: setupConnectionManager(nil) returns the nil handle and errNilConfig
\* and leaves the configuration alone; with a configuration it returns no
\* error and a manager that is Stopped, has no prober and keeps the pointer,
\* and each of the three settings is the given one where it was set (list
\* not nil, interval not 0) and the connchecker default where it was not.
C10_Setup ==
    [][(setupCall' # setupCall) =>
          IF setupCall'.arg = "nil"
          THEN /\ m'.isNil
               /\ setupCall'.err = errNilConfig
               /\ connCfg' = connCfg
               /\ probers' = probers
          ELSE /\ setupCall'.err = NoErr
               /\ ~m'.isNil
               /\ ~IsRunningValue(m')
               /\ m'.conn = 0
               /\ m'.cfg = "ConnectionMonitor"
               /\ probers' = <<>>
               /\ connCfg'.DNSList =
                     (IF connCfg.DNSList = NilSlice THEN DefaultDNSList ELSE connCfg.DNSList)
               /\ connCfg'.PublicDomainList =
                     (IF connCfg.PublicDomainList = NilSlice
                      THEN DefaultDomainList ELSE connCfg.PublicDomainList)
               /\ connCfg'.CheckInterval =
                     (IF connCfg.CheckInterval = 0
                      THEN DefaultCheckInterval ELSE connCfg.CheckInterval)]_vars

\* C10 witness: a set-up manager, Stopped, whose DNS list is the default, whose
\* domain list is the given empty list and whose interval is the given one
C10_Witness ==
    /\ setupCall.arg = "ConnectionMonitor" /\ setupCall.err = NoErr
    /\ ~m.isNil /\ m.started = 0 /\ m.conn = 0
    /\ connCfg = [DNSList |-> DefaultDNSList, PublicDomainList |-> MkSlice(<<>>),
                  CheckInterval |-> 5]
    /\ qret = [op |-> "IsRunning", res |-> "false"]

\* ============================================================ engine claims
\* no caller is inside the body of Engine.Start or Engine.Stop
NobodyInBody == \A t \in Callers : ~InBody(t)
\* Engine.Stop was the last call to return and no pass has begun since
StopReturned == last.op = "Stop" /\ NobodyInBody
\* Engine.Start was the last call to return and no pass has begun since
StartReturned == last.op = "Start" /\ last.ret # "errNilEngine" /\ NobodyInBody
\* the events of kind e in the log of the pass
Events(e) == {i \in 1..Len(ev) : ev[i].e = e}
Did(e, s) == \E i \in Events(e) : ev[i].s = s
DidOk(e, s) == \E i \in Events(e) : ev[i].s = s /\ ev[i].r = NoErr

\* C11: once Engine.Stop has returned, the ServicesWG counter is zero and
\* every lifecycle subsystem of the engine reports IsRunning() = false.
C11_ShutdownComplete ==
    StopReturned => (wg = 0 /\ \A s \in Lifecycle : ~Running(s))

\* caller t executes one statement group of the pass it is in
SeqStep(t) == InBody(t) /\ epos'[t] # epos[t]
\* what the step of a pass added to the log
NewEvents == {ev'[i] : i \in (Len(ev) + 1)..Len(ev')}
\* the calls that set up, start, stop or spawn a subsystem, or save the config
\* (the currency storage updater is a package service, not a subsystem)
Effects == {"setup", "start", "stop", "spawn", "save"}
\* the pass of t was issued in a state the engine state machine does not
\* allow it in: a Start while Up, a Stop while Idle
Misplaced(t) ==
    \/ cpc[t] = "Start" /\ estate = "Up"
    \/ cpc[t] = "Stop" /\ estate = "Idle"

\* C12: a Start issued while the engine is Up, and a Stop issued while it is
\* Idle, changes nothing: no step of such a pass sets up, starts, replaces or
\* stops a subsystem, and none saves the configuration.
C12_StartOnlyFromIdle ==
    [][\A t \in Callers :
         (SeqStep(t) /\ Misplaced(t)) =>
            /\ sub' = sub
            /\ m' = m
            /\ \A e \in NewEvents : e.e \in Effects => e.s = "StorageUpdater"]_vars

\* C13: the bodies of Engine.Start and Engine.Stop exclude each other: at no
\* time are two callers between the Lock and the Unlock of a pass.
C13_MutualExclusion ==
    \A t, u \in Callers : (InBody(t) /\ InBody(u)) => t = u

\* a caller is inside a pass while the other has called and waits for the mutex
C13_Witness ==
    \E t, u \in Callers :
       /\ InBody(t) /\ epos[t] > 1
       /\ cpc[u] \in {"Start", "Stop"} /\ ~InBody(u)
       /\ mutex = t

\* the subject under which the setup of subsystem s is logged
SetupOf(s) == IF s \in {RESTServer, WebsocketServer} THEN "apiServer" ELSE s
\* the lifecycle subsystems Engine.Start has a Start call for (it has none
\* for the NTP manager), dispatch having no setup
Started == Lifecycle \ {ntpManager, dispatch}
\* Start returned nil: no hard failure ended the pass
StartedUp == StartReturned /\ last.ret = NoErr
\* a soft failure in the log of the pass
SoftFailure(s) ==
    \E i \in 1..Len(ev) : /\ ev[i].e \in {"setup", "start"}
                          /\ ev[i].s \in {s, SetupOf(s)}
                          /\ ev[i].r # NoErr

\* C14: a soft failure never keeps a sibling from being set up and started:
\* when Engine.Start has returned nil, every enabled subsystem whose own
\* Setup succeeded in the pass had its Start called (or spawned), whatever
\* failed before it, and every subsystem whose Setup or Start failed reports
\* IsRunning() = false.
C14_SoftFailureIsolated ==
    StartedUp =>
      \A s \in Started :
         /\ (FlagOf(s) \in settings /\ DidOk("setup", SetupOf(s)))
               => (Did("start", s) \/ Did("spawn", s))
         /\ SoftFailure(s) => ~Running(s)

\* C15: a failed Setup of the database manager aborts Engine.Start: nothing
\* is executed after it and the pass does not return nil.
C15_DatabaseSetupFatal ==
    \A i \in 1..Len(ev) :
       (ev[i].e = "setup" /\ ev[i].s = DatabaseManager /\ ev[i].r # NoErr)
          => (i = Len(ev) /\ ~StartedUp)


\* C16: Engine.Start returns a non-nil error exactly when a hard failure
\* occurred (or the engine is nil); the error is that of the first hard
\* failure, no startup step is executed after it, and soft failures alone
\* give a nil return.
C16_HardFailureReturn ==
    /\ \A i \in Events("hard") : i = Len(ev) /\ NobodyInBody
    /\ (last.op = "Start" /\ NobodyInBody) =>
         ((last.ret # NoErr) <=> (last.ret = "errNilEngine" \/ Events("hard") # {}))
    /\ StartReturned => \A i \in Events("hard") : last.ret = ev[i].r

\* a Start that returned a hard failure after a logged soft failure
C16_Witness ==
    /\ StartReturned
    /\ Events("hard") # {}
    /\ \E i \in 1..Len(ev) : ev[i].e = "start" /\ ev[i].r # NoErr


\* the goroutines Engine.Start has spawned
Spawned(r, g) == r + (IF g.deposit THEN 1 ELSE 0) + (IF g.syncer THEN 1 ELSE 0) + g.syncerOld

\* C17: every background task Engine.Start spawns (RPC server, deposit
\* address sync, sync manager Start) is registered with ServicesWG by the
\* step that spawns it.
C17_SpawnRegistered ==
    [][Spawned(rpc', gor') > Spawned(rpc, gor) => wg' > wg]_vars


\* caller t executes one IsRunning step of the shutdown list
StopListStep(t) ==
    /\ AtStop(t, "stop") \/ AtStop(t, "connstop")
    /\ epos'[t] # epos[t]
StopCalled(s) ==
    \E i \in (Len(ev) + 1)..Len(ev') : ev'[i].e = "stop" /\ ev'[i].s = s
Asked(s) == Did("ask", s)
StopSubs == {StopList[i] : i \in 1..Len(StopList)}

\* C18: in Engine.Stop a subsystem's Stop is invoked if and only if its
\* IsRunning answered true at that step, the sequence goes on to the next
\* step whatever Stop returned, and a Stop that has returned has examined
\* every subsystem of the shutdown list.
C18_StopIffRunning ==
    /\ [](StopReturned => \A s \in StopSubs : Asked(s))
    /\ [][\A t \in Callers : StopListStep(t) =>
            /\ StopCalled(CurStop(t)) <=> Running(CurStop(t))
            /\ epos'[t] = epos[t] + 1]_vars

\* a Stop that returned after the order manager's Stop failed and a later
\* subsystem of the list was stopped
C18_Witness ==
    /\ StopReturned
    /\ \E i, j \in Events("stop") :
         /\ ev[i].s = OrderManager /\ ev[i].r # NoErr
         /\ i < j /\ ev[j].s \in StopSubs


\* the log belongs to a Stop pass, running or returned
StopPass == StopReturned \/ \E t \in Callers : cpc[t] = "Stop" /\ InBody(t)
Before(e1, e2) == \A i \in Events(e1) : \A j \in Events(e2) : i < j
AllAsked(i) ==
    \A s \in StopSubs : \E j \in 1..(i - 1) : ev[j].e = "ask" /\ ev[j].s = s

\* C19: within one Engine.Stop pass the portfolio state is copied into the
\* configuration before any subsystem is stopped, the configuration is saved
\* after every subsystem has been asked to stop, the wait on ServicesWG comes
\* after the save, and closing the logger is the last step.
C19_StopOrder ==
    StopPass =>
      /\ Before("capture", "ask") /\ Before("capture", "stop")
      /\ \A i \in Events("save") : AllAsked(i)
      /\ Before("save", "wait")
      /\ \A i \in Events("wait") : AllAsked(i)
      /\ \A i \in Events("closelog") : i = Len(ev) /\ Events("wait") # {}

\* a Stop that returned after it copied the portfolio, stopped a subsystem,
\* saved the configuration, waited and closed the logger
C19_Witness ==
    /\ StopReturned
    /\ Events("capture") # {} /\ Events("stop") # {} /\ Events("save") # {}
    /\ Events("wait") # {} /\ Events("closelog") # {}


\* C20: Engine.Stop saves the configuration exactly once when dry-run is off
\* and never when it is on; a failed save does not end the pass, which still
\* waits on ServicesWG and closes the logger after it.
C20_SaveOnceUnlessDryRun ==
    /\ StopPass => Cardinality(Events("save")) <= 1
    /\ StopReturned =>
         /\ Cardinality(Events("save")) = (IF "EnableDryRun" \in settings THEN 0 ELSE 1)
         /\ \A i \in Events("save") :
              /\ \E j \in Events("wait") : i < j
              /\ \E j \in Events("closelog") : i < j

\* a Stop that returned although its save failed
C20_Witness ==
    /\ StopReturned
    /\ \E i \in Events("save") : ev[i].r = "errSave"
    /\ Events("wait") # {} /\ Events("closelog") # {}


\* C21: Engine.Stop returns only when the ServicesWG counter is zero, and
\* under fair scheduling every call of Engine.Stop returns, unless a tracked
\* task is left that belongs to no subsystem the engine still holds.
C21_StopWaitsAndReturns ==
    /\ [](StopReturned => wg = 0)
    /\ [][\A t \in Callers : (AtStop(t, "wait") /\ epos'[t] # epos[t]) => wg = 0]_vars
    /\ \A t \in Callers : (cpc[t] = "Stop") ~> (cpc[t] = "idle" \/ orphans > 0)

\* a Stop that returned after it stopped a subsystem whose task was counted
\* in ServicesWG
C21_Witness ==
    /\ StopReturned
    /\ orphans = 0
    /\ \E s \in WGSubs : DidOk("stop", s)
    /\ Events("wait") # {}


\* no subsystem of the engine was ever set up: every handle is nil
AllNil == \A s \in Lifecycle \ {dispatch} : SubState(s) = "nil"
StopOf(s) == {i \in Events("stop") : ev[i].s = s}

\* C22: Engine.Stop on an engine whose handles are all nil invokes no
\* subsystem Stop, and in every state of the pass its next statement can be
\* executed: it neither faults nor blocks, and runs to the return.
C22_StopOnNilHandles ==
    AllNil =>
      /\ StopPass => \A s \in StopSubs : StopOf(s) = {}
      /\ \A t \in Callers :
           /\ (cpc[t] = "Stop" /\ InBody(t)) => ENABLED Sequencer(t)
           /\ (cpc[t] = "Stop" /\ ~InBody(t) /\ mutex = 0) => ENABLED EngineLock(t)
      /\ ~crashed

\* a Stop that has returned on an engine made by New() that was never started
C22_Witness ==
    /\ StopReturned
    /\ AllNil
    /\ \A s \in StopSubs : Asked(s)
    /\ Events("closelog") # {}


\* subsystem b is enabled and receives the handle of a subsystem that the
\* settings disable
MissingDep(b) == FlagOf(b) \in settings /\ \E a \in Deps(b) : FlagOf(a) \notin settings
SetupsOf(b) == {i \in Events("setup") : ev[i].s = SetupOf(b)}
StartsOf(b) == {i \in Events("start") : ev[i].s = b}

\* C23: when subsystem B is given the handle of a subsystem A that the
\* settings disable, B's Setup returns the missing-dependency error,
\* B.Start is never called and B never reports IsRunning.
C23_MissingDependency ==
    \A b \in Lifecycle : MissingDep(b) =>
       /\ \A i \in SetupsOf(b) : ev[i].r = "errNilDependency"
       /\ StartsOf(b) = {}
       /\ ~Running(b)


\* the Start of subsystem a is still to be run by the goroutine that
\* Engine.Start spawned for it
StartPending(a) == a = currencyPairSyncer /\ gor.syncer
\* the step sets up or starts subsystem b
ActsOn(b) ==
    \E i \in (Len(ev) + 1)..Len(ev') :
       \/ ev'[i].e = "setup" /\ ev'[i].s = SetupOf(b)
       \/ ev'[i].e = "start" /\ ev'[i].s = b

\* C24: in Engine.Start a subsystem that is given another subsystem's handle
\* is set up and started only after that subsystem's Start has returned,
\* never while that Start is still pending in a spawned goroutine.
C24_DependencyStarted ==
    [][\A b \in Lifecycle : ActsOn(b) => \A a \in Deps(b) : ~StartPending(a)]_vars


\* C25: IsRunning never blocks: a goroutine that is in no other call can
\* execute it in every state, also while a caller holds the engine mutex
\* inside Engine.Start or Engine.Stop; it answers whether the started flag
\* is 1 and changes nothing.
C25_IsRunningNeverBlocks ==
    /\ [](\A t \in Threads : (Idle(t) /\ ~crashed) => ENABLED IsRunning(t))
    /\ [][\A t \in Threads : IsRunning(t) =>
            /\ qret'.res = (IF ~m.isNil /\ m.started = 1 THEN "true" ELSE "false")
            /\ UNCHANGED <<connCfg, m, setupCall, probers, pc, hist, crashed>>
            /\ UNCHANGED <<evars, pvars>>]_vars

\* IsRunning has answered true while a caller was inside Engine.Stop
C25_Witness ==
    /\ qret = [op |-> "IsRunning", res |-> "true"]
    /\ \E t \in Callers : cpc[t] = "Stop" /\ InBody(t) /\ mutex = t
    /\ m.started = 1


\* what IsConnected answers on the probers an IsOnline of goroutine t can
\* reach: the one its nil check found and the one the handle holds now
ProberAnswers(t) ==
    {IF probers[c].connected THEN "true" ELSE "false" : c \in {lconn[t], m.conn} \ {0}}

\* C26: IsOnline returns false without faulting when the manager is nil or
\* holds no prober, and otherwise returns the prober's last-known
\* connectivity result; it changes neither the manager nor any prober.
C26_IsOnlineQuery ==
    [][\A t \in Threads :
         /\ (IsOnlineCall(t) /\ (m.isNil \/ m.conn = 0)) =>
              /\ qret' = [op |-> "IsOnline", res |-> "false"]
              /\ pc'[t] = "idle"
         /\ IsOnlineRet(t) =>
              /\ qret'.res \in ProberAnswers(t)
              /\ ~crashed'
         /\ (IsOnlineCall(t) \/ IsOnlineRet(t)) =>
              UNCHANGED <<connCfg, m, setupCall, probers, hist>>]_vars


\* Stop of goroutine t has found the state Running and the prober absent
FoundNoProber(t) == pc[t] = "stop_defer" /\ pend[t] = errConnectionCheckerIsNil
Shutdowns == [c \in 1..Len(probers) |-> probers[c].shutdowns]

\* C27: a Stop that finds the state Running but the prober handle absent
\* returns errConnectionCheckerIsNil, which is neither
\* ErrSubSystemNotStarted nor ErrNilSubsystem, invokes no Shutdown and
\* leaves the state Stopped.
C27_StopWithoutProber ==
    [][\A t \in Threads :
         /\ (StopChk(t) /\ m.conn = 0) => (FoundNoProber(t))' /\ probers' = probers
         /\ (FoundNoProber(t) /\ StopDefer(t)) =>
              /\ LastReturn = [op |-> "Stop", res |-> errConnectionCheckerIsNil]
              /\ errConnectionCheckerIsNil \notin {ErrSubSystemNotStarted, ErrNilSubsystem, NoErr}
              /\ probers' = probers
              /\ m'.started = 0]_vars

\* a Stop has returned errConnectionCheckerIsNil
C27_Witness ==
    /\ Len(hist) > 0
    /\ hist[Len(hist)] = [op |-> "Stop", res |-> errConnectionCheckerIsNil]
    /\ m.started = 0


\* a step of Engine.Start: a statement of its body, or of a goroutine it
\* has spawned
StartStep ==
    \/ \E t \in Callers : /\ cpc[t] = "Start" /\ InBody(t)
                          /\ (epos'[t] # epos[t] \/ pc'[t] # pc[t])
    \/ gor' # gor
Disabled(s) == FlagOf(s) \notin settings
\* the two API servers share the handle bot.apiServer
HandleDisabled(s) ==
    IF s \in {RESTServer, WebsocketServer}
    THEN Disabled(RESTServer) /\ Disabled(WebsocketServer)
    ELSE Disabled(s)

\* C28: Engine.Start neither sets up nor starts a lifecycle subsystem whose
\* enable flag is off: no step of Start changes its handle or its running
\* state.
C28_DisabledUntouched ==
    [][StartStep => \A s \in Lifecycle :
          /\ Disabled(s) => (Running(s))' = Running(s)
          /\ HandleDisabled(s) => (SubState(s))' = SubState(s)
          /\ Disabled(s) => \A i \in (Len(ev) + 1)..Len(ev') :
                ev'[i].e \in {"setup", "start"} => ev'[i].s \notin {s, SetupOf(s)} \ {"apiServer"}]_vars

\* a Start that returned nil, started an enabled subsystem and left a
\* disabled one without a handle
C28_Witness ==
    /\ StartedUp
    /\ \E s \in Lifecycle : Disabled(s) /\ SubState(s) = "nil"
    /\ \E s \in Lifecycle : ~Disabled(s) /\ Running(s)


\* Save has requested the writer
WriterRequested == save.writerCalls > 0
PreparedPayload ==
    IF save.EncryptConfig = fileEncryptionEnabled THEN "cipher" ELSE "json"
PrepareErrors == {"err_marshal", "err_key", "err_derive", "err_encrypt"}

\* C29: Config.Save requests the writer only once the payload is fully
\* prepared: when marshalling, the key provider, the derivation of the
\* session key or the encryption fails, the writer provider is never called
\* and nothing is written.
C29_WriterAfterPayload ==
    /\ WriterRequested =>
         /\ save.payload = PreparedPayload
         /\ save.ret \notin PrepareErrors
         /\ save.EncryptConfig = fileEncryptionEnabled => save.sessionDK
    /\ save.written # "none" => WriterRequested
    /\ (save.pos = "done" /\ save.ret \in PrepareErrors) =>
         save.writerCalls = 0 /\ save.written = "none"
    /\ save.pos = "done" => save.ret # "none"

\* a Save that asked for the key, failed to derive the session key and
\* returned without requesting the writer
C29_Witness ==
    /\ save.pos = "done"
    /\ save.ret = "err_derive"
    /\ save.keyCalls = 1
    /\ save.writerCalls = 0

\* C30: FlagSet.WithBool leaves in *flagValue the command-line value when
\* the key is set in the flag set, and configValue when it is not, for every
\* combination of the three booleans.
C30_WithBool ==
    flag.pos = "done" =>
       flag.flagValue = (IF flag.f[flag.key] = "true" THEN flag.cmd ELSE flag.configValue)

\* WithBool has returned on a set key whose command-line value differs from
\* the config value
C30_Witness ==
    /\ flag.pos = "done"
    /\ flag.f[flag.key] = "true"
    /\ flag.cmd # flag.configValue
    /\ flag.flagValue = flag.cmd


\* the subsystems Engine.Start both sets up and starts (the dispatcher is a
\* package singleton that is only started)
SetupAndStart == Lifecycle \ {dispatch}
SetupOkBefore(s, i) ==
    \E j \in 1..(i - 1) : ev[j].e = "setup" /\ ev[j].s = SetupOf(s) /\ ev[j].r = NoErr

\* C31: in Engine.Start a subsystem's Start is invoked only after its Setup
\* returned no error in the same pass, and when Start returns nil every
\* enabled subsystem whose Setup succeeded has had its Start invoked.
C31_SetupThenStart ==
    \A s \in SetupAndStart :
       /\ \A i \in StartsOf(s) : SetupOkBefore(s, i)
       /\ (StartedUp /\ ~Disabled(s) /\ DidOk("setup", SetupOf(s)))
             => (Did("start", s) \/ Did("spawn", s))


\* the events of the step that write the engine's Config
ConfigWritten ==
    \/ connCfg' # connCfg
    \/ \E i \in (Len(ev) + 1)..Len(ev') : ev'[i].e \in {"purge", "SetNTPCheck"}

\* C32: no step of Engine.Start, and no Setup it calls, writes a field of
\* the engine's Config.
C32_ConfigReadOnlyAtStart ==
    [][StartStep => ~ConfigWritten]_vars


AskOf(s) == {i \in Events("ask") : ev[i].s = s}

\* C33: Engine.Stop examines the subsystems in reverse dependency order:
\* when B's Setup received A's handle, B is asked to stop before A.
C33_ReverseDependencyStop ==
    \A b \in StopSubs : \A a \in Deps(b) \cap StopSubs :
       \A i \in AskOf(a) : \A j \in AskOf(b) : j < i


\* ------------------------------------------------------------ loadConfigWithSettings
errAttempts == "failed to decrypt config after 3 attempts"
evcm == <<cvars, cmvars, evars>>

\* ReadConfigFromFile returns r to loadConfigWithSettings
ReadReturn(r) == [load EXCEPT !.readRet = r, !.pos = "readret"]

\* filePath, err := config.GetAndMigrateDefaultPath(settings.ConfigFile);
\* conf := &config.Config{}; conf.ReadConfigFromFile(filePath, settings.EnableDryRun)
LoadPath ==
    /\ load.pos = "path"
    /\ \E ok \in BOOLEAN :
         load' = IF ok THEN [load EXCEPT !.dryrun = load.EnableDryRun, !.pos = "getpath"]
                 ELSE [load EXCEPT !.ret = "errPath", !.conf = "nil", !.pos = "done"]
    /\ UNCHANGED <<evcm, save, flag, http>>

\* defaultPath, _, err := GetFilePath(configPath)
ReadGetFilePath ==
    /\ load.pos = "getpath"
    /\ \E ok \in BOOLEAN :
         load' = IF ok THEN [load EXCEPT !.pos = "open"] ELSE ReadReturn("errGetFilePath")
    /\ UNCHANGED <<evcm, save, flag, http>>

\* confFile, err := os.Open(defaultPath)
ReadOpen ==
    /\ load.pos = "open"
    /\ \E ok \in BOOLEAN :
         load' = IF ok THEN [load EXCEPT !.pos = "peek"] ELSE ReadReturn("errOpen")
    /\ UNCHANGED <<evcm, save, flag, http>>

\* ReadConfig: pref, err := reader.Peek(...); if !ConfirmECS(pref) { decode }
\* else readEncryptedConfWithKey
ReadConfigPeek ==
    /\ load.pos = "peek"
    /\ \E ok \in BOOLEAN :
         load' = IF ~ok THEN ReadReturn("error reading config")
                 ELSE IF ~load.fileEncrypted THEN [load EXCEPT !.pos = "decode"]
                 ELSE [load EXCEPT !.pos = "readall"]
    /\ UNCHANGED <<evcm, save, flag, http>>

\* err = decoder.Decode(c); return c, false, err
ReadConfigDecode ==
    /\ load.pos = "decode"
    /\ \E ok \in BOOLEAN :
         load' = IF ok THEN [load EXCEPT !.wasEncrypted = FALSE, !.pos = "assign"]
                 ELSE ReadReturn("error reading config")
    /\ UNCHANGED <<evcm, save, flag, http>>

\* fileData, err := ioutil.ReadAll(reader)
KeyReadAll ==
    /\ load.pos = "readall"
    /\ \E ok \in BOOLEAN :
         load' = IF ok THEN [load EXCEPT !.pos = "loop"]
                 ELSE [ReadReturn("error reading config") EXCEPT !.keyRet = "errReadAll"]
    /\ UNCHANGED <<evcm, save, flag, http>>

\* a loop that goes round once more
AttemptsLeft_OneMore(errCounter) == errCounter <= maxAuthFailures

\* errCounter < maxAuthFailures
AttemptsLeft(errCounter) == errCounter < maxAuthFailures

\* for errCounter := 0; errCounter < maxAuthFailures; errCounter++; after the
\* loop: return nil, errors.New("failed to decrypt config after 3 attempts")
KeyLoop ==
    /\ load.pos = "loop"
    /\ load' = IF AttemptsLeft(load.errCounter) THEN [load EXCEPT !.pos = "key"]
               ELSE [ReadReturn("error reading config") EXCEPT !.keyRet = errAttempts]
    /\ UNCHANGED <<evcm, save, flag, http>>

\* key, err := keyProvider(); if err != nil { continue }
KeyProvider ==
    /\ load.pos = "key"
    /\ \E ok \in BOOLEAN :
         load' = IF ok THEN [load EXCEPT !.keyCalls = @ + 1, !.pos = "decrypt"]
                 ELSE [load EXCEPT !.keyCalls = @ + 1, !.errCounter = @ + 1, !.pos = "loop"]
    /\ UNCHANGED <<evcm, save, flag, http>>

\* c, err = readEncryptedConf(bytes.NewReader(fileData), key);
\* if err != nil { continue }; return c, nil
KeyDecrypt ==
    /\ load.pos = "decrypt"
    /\ \E ok \in BOOLEAN :
         load' = IF ok THEN [load EXCEPT !.keyRet = NoErr, !.wasEncrypted = TRUE,
                                         !.pos = "assign"]
                 ELSE [load EXCEPT !.errCounter = @ + 1, !.pos = "loop"]
    /\ UNCHANGED <<evcm, save, flag, http>>

\* a gate that lets a dry run through
NoSaveGate_NoDryRun(dryrun, wasEncrypted, enc) ==
    wasEncrypted \/ enc = fileEncryptionDisabled

\* if dryrun || wasEncrypted || c.EncryptConfig == fileEncryptionDisabled
NoSaveGate(dryrun, wasEncrypted, enc) ==
    dryrun \/ wasEncrypted \/ enc = fileEncryptionDisabled

\* *c = *result, then the two ifs that follow it
ReadAssign ==
    /\ load.pos = "assign"
    /\ LET c == [load EXCEPT !.EncryptConfig = load.fileEncryptConfig,
                             !.DataDirectory = "config"] IN
         load' = IF NoSaveGate(c.dryrun, c.wasEncrypted, c.EncryptConfig)
                   THEN [c EXCEPT !.readRet = NoErr, !.pos = "readret"]
                 ELSE IF c.EncryptConfig = fileEncryptionPrompt
                   THEN [c EXCEPT !.pos = "prompt"]
                 ELSE [c EXCEPT !.readRet = NoErr, !.pos = "readret"]
    /\ UNCHANGED <<evcm, save, flag, http>>

\* confirm, err := promptForConfigEncryption()
ReadPrompt ==
    /\ load.pos = "prompt"
    /\ \E answer \in {"err", "yes", "no"} :
         load' = IF answer = "err"
                   THEN [load EXCEPT !.prompt = answer, !.readRet = NoErr, !.pos = "readret"]
                 ELSE [load EXCEPT !.prompt = answer, !.pos = "savepath",
                          !.EncryptConfig = IF answer = "yes" THEN fileEncryptionEnabled
                                            ELSE fileEncryptionDisabled]
    /\ UNCHANGED <<evcm, save, flag, http>>

\* what ReadConfigFromFile returns after SaveConfigToFile returned r: the
\* error when the user confirmed, nil (the error is logged) otherwise
AfterSave(r) == IF load.prompt = "yes" THEN r ELSE NoErr

\* c.SaveConfigToFile(defaultPath): GetFilePath, then c.Save(provider, ...)
SaveConfigToFile ==
    /\ load.pos = "savepath"
    /\ \/ /\ load' = [load EXCEPT !.saves = @ + 1, !.pos = "saving"]
          /\ \E fails \in SUBSET SaveCalls :
                save' = SaveStart(load.EncryptConfig, FALSE, fails)
       \/ /\ load' = [ReadReturn(AfterSave("errGetFilePath")) EXCEPT !.saves = @ + 1]
          /\ save' = save
    /\ UNCHANGED <<evcm, flag, http>>

\* c.Save has returned
SaveReturned ==
    /\ load.pos = "saving"
    /\ save.pos = "done"
    /\ load' = ReadReturn(AfterSave(save.ret))
    /\ UNCHANGED <<evcm, save, flag, http>>

\* if err != nil { return nil, ... }; if flagSet["datadir"] {
\* settings.EnableDryRun = true; conf.DataDirectory = settings.DataDir }
LoadOverride ==
    /\ load.pos = "readret"
    /\ load' = IF load.readRet # NoErr
                 THEN [load EXCEPT !.ret = "ErrFailureOpeningConfig", !.conf = "nil",
                                   !.pos = "done"]
               ELSE IF load.datadir
                 THEN [load EXCEPT !.EnableDryRun = TRUE, !.DataDirectory = "settings",
                                   !.pos = "check"]
               ELSE [load EXCEPT !.pos = "check"]
    /\ UNCHANGED <<evcm, save, flag, http>>

\* return conf, conf.CheckConfig()
LoadCheck ==
    /\ load.pos = "check"
    /\ \E ok \in BOOLEAN :
         load' = [load EXCEPT !.ret = IF ok THEN NoErr ELSE "errCheckConfig",
                              !.conf = "conf", !.pos = "done"]
    /\ UNCHANGED <<evcm, save, flag, http>>

InitLoad ==
    /\ connCfg = [DNSList |-> NilSlice, PublicDomainList |-> NilSlice, CheckInterval |-> 0]
    /\ m = NilManager
    /\ setupCall = [arg |-> "none", err |-> "none", replaced |-> FALSE]
    /\ probers = <<>>
    /\ pc = [t \in Threads |-> "idle"]
    /\ lconn = [t \in Threads |-> 0]
    /\ pend = [t \in Threads |-> NoErr]
    /\ qret = [op |-> "none", res |-> "none"]
    /\ hist = <<>>
    /\ overlap = FALSE
    /\ crashed = FALSE
    /\ EngineInit({}, {})
    /\ save = SaveIdle
    /\ flag = FlagIdle
    /\ http = HttpIdle
    /\ \E dry \in BOOLEAN, dd \in BOOLEAN, enc \in BOOLEAN, fe \in EncryptInputs :
          load = LoadStart(dry, dd, enc, fe)
NextLoad ==
    \/ LoadPath
    \/ ReadGetFilePath
    \/ ReadOpen
    \/ ReadConfigPeek
    \/ ReadConfigDecode
    \/ KeyReadAll
    \/ KeyLoop
    \/ KeyProvider
    \/ KeyDecrypt
    \/ ReadAssign
    \/ ReadPrompt
    \/ SaveConfigToFile
    \/ SaveMarshal
    \/ SaveKey
    \/ SaveDerive
    \/ SaveEncrypt
    \/ SaveWriter
    \/ SaveCopy
    \/ SaveReturned
    \/ LoadOverride
    \/ LoadCheck
SpecLoad == InitLoad /\ [][NextLoad]_vars


\* ReadConfigFromFile has returned to loadConfigWithSettings
ReadReturned == load.pos \in {"readret", "check"} \/ (load.pos = "done" /\ load.readRet # "none")
\* ReadConfigFromFile has been entered
ReadEntered == load.pos \notin {"idle", "path"} /\ load.ret # "errPath"

\* C34: when flagSet["datadir"] is set, loadConfigWithSettings runs as a dry
\* run: the file is read with dryrun = true, nothing is saved during the load,
\* and on return settings.EnableDryRun is true and conf.DataDirectory is
\* settings.DataDir.
C34_DatadirInducesDryRun ==
    load.datadir =>
       /\ ReadEntered => load.dryrun
       /\ load.saves = 0
       /\ (load.pos = "done" /\ load.conf = "conf") =>
             (load.EnableDryRun /\ load.DataDirectory = "settings")

\* C35: ReadConfigFromFile saves nothing when dryrun is true, when the file
\* was encrypted or when EncryptConfig is disabled; when EncryptConfig is
\* prompt and the prompt succeeds, EncryptConfig becomes enabled or disabled
\* and exactly one save is attempted; when the prompt fails nothing is saved
\* and nil is returned.
C35_ReadConfigSaveRules ==
    /\ (load.dryrun \/ load.fileEncrypted
          \/ load.fileEncryptConfig = fileEncryptionDisabled) => load.saves = 0
    /\ (ReadReturned /\ load.prompt \in {"yes", "no"}) =>
          /\ load.EncryptConfig =
                (IF load.prompt = "yes" THEN fileEncryptionEnabled ELSE fileEncryptionDisabled)
          /\ load.saves = 1
    /\ (~load.dryrun /\ ~load.fileEncrypted /\ load.fileEncryptConfig = fileEncryptionPrompt
          /\ ReadReturned /\ load.readRet = NoErr) => load.prompt # "none"
    /\ (ReadReturned /\ load.prompt = "err") => (load.saves = 0 /\ load.readRet = NoErr)
    /\ load.prompt = "none" => load.saves = 0

\* C35 witness: a plain file with EncryptConfig prompt was read outside a dry
\* run, the user confirmed, and the one save wrote the encrypted payload
C35_Witness ==
    /\ load.pos = "done"
    /\ ~load.dryrun /\ load.prompt = "yes"
    /\ load.saves = 1
    /\ save.pos = "done" /\ save.written = "cipher"

\* C36: readEncryptedConfWithKey asks the key provider at most
\* maxAuthFailures times, returns at the first attempt that decrypts without
\* asking again, and returns the error once maxAuthFailures attempts failed;
\* every key-provider error and every decryption failure consumes an attempt.
C36_KeyAttempts ==
    /\ load.keyCalls <= maxAuthFailures
    /\ load.errCounter <= maxAuthFailures
    /\ load.keyCalls = (IF load.pos = "decrypt" \/ load.keyRet = NoErr
                          THEN load.errCounter + 1 ELSE load.errCounter)
    /\ load.keyRet = errAttempts <=>
          (load.errCounter = maxAuthFailures /\ load.pos # "loop")
    /\ load.wasEncrypted <=> load.keyRet = NoErr

\* C36 witness: two attempts failed and the third one decrypted the file
C36_Witness ==
    /\ load.keyRet = NoErr
    /\ load.keyCalls = maxAuthFailures
    /\ load.pos = "done"


\* the subsystems Engine.Start sets up and starts on its own goroutine after
\* it has spawned a task
Siblings == {OrderManager, eventManager, websocketRoutineManager}

\* C37: whatever a spawned task (deposit-address sync, sync-manager Start)
\* returns and whenever it runs, a sibling whose Setup returned nil is
\* started and a sibling whose Setup returned an error is not.
C37_SpawnedTaskIsolated ==
    \A s \in Siblings :
       /\ \A i \in StartsOf(s) :
             \E j \in 1..(i - 1) : ev[j].e = "setup" /\ ev[j].s = s /\ ev[j].r = NoErr
       /\ (StartedUp /\ DidOk("setup", s)) => Did("start", s)


\* a prober that was constructed and has not been shut down
LiveProber == \E i \in 1..Len(probers) : probers[i].state = "live"

\* C38: under every interleaving of Start() and Stop() on one
\* connectionManager, whenever no call is in progress a live prober exists
\* if and only if the state is Running.
C38_ProberIffRunning ==
    (OneManager /\ Quiescent /\ ~crashed /\ ~m.isNil) => (LiveProber <=> m.started = 1)


\* Engine.Start, Engine.Stop and a second Engine.Start have returned nil, in
\* that order, with every subsystem enabled (so that no dependency is
\* missing), nothing having failed, and no other call was made
CycleDone ==
    /\ StartedUp
    /\ settings = AllEnabled
    /\ last.before = << <<"Start", NoErr>>, <<"Stop", NoErr>> >>
    /\ faults = {}
    /\ \A t \in Callers : cpc[t] = "idle"

\* C39: after Engine.Start, Engine.Stop and a second Engine.Start with the
\* same settings and no failure, every enabled subsystem Engine.Start starts
\* on its own goroutine is Running again.
C39_LifecycleCycle ==
    CycleDone =>
       \A s \in Started \ {currencyPairSyncer} : ~Disabled(s) => Running(s)


\* ------------------------------------------------------------ HTTP client
errCannotSetInvalidTimeout == "errCannotSetInvalidTimeout"
errUserAgentInvalid == "errUserAgentInvalid"
errHTTPClientInvalid == "errHTTPClientInvalid"

HttpAt(t, p) == http.hpc[t] = p
HttpGoto(h, t, p) == [h EXCEPT !.hpc[t] = p]
HttpReturn(h, t, r) == [h EXCEPT !.hpc[t] = "idle", !.ret[t] = r]
HttpRest == <<evcm, save, flag, load>>

\* m.Lock(): no reader and no writer holds the RWMutex
CanLock == http.wlock = 0 /\ \A u \in HTTPCallers : ~http.rlock[u]
\* m.RLock(): no writer holds the RWMutex
CanRLock == http.wlock = 0

\* SetHTTPClient(client): if client == nil { return errHTTPClientInvalid }
SetHTTPClientCall(t) ==
    /\ HttpAt(t, "idle")
    /\ \E client \in {"nil", "custom"} :
         http' = IF client = "nil" THEN HttpReturn(http, t, errHTTPClientInvalid)
                 ELSE HttpGoto([http EXCEPT !.arg[t] = client], t, "set_lock")
    /\ UNCHANGED HttpRest

\* SetHTTPClientWithTimeout(t): if t <= 0 { return errCannotSetInvalidTimeout };
\* the client to install is NewHTTPClientWithTimeout(t)
SetHTTPClientWithTimeoutCall(t) ==
    /\ HttpAt(t, "idle")
    /\ \E d \in {0, 1} :
         http' = IF d <= 0 THEN HttpReturn(http, t, errCannotSetInvalidTimeout)
                 ELSE HttpGoto([http EXCEPT !.arg[t] = "timeout"], t, "set_lock")
    /\ UNCHANGED HttpRest

\* SetHTTPUserAgent(agent): if agent == "" { return errUserAgentInvalid }
SetHTTPUserAgentCall(t) ==
    /\ HttpAt(t, "idle")
    /\ \E agent \in {"", "bot"} :
         http' = IF agent = "" THEN HttpReturn(http, t, errUserAgentInvalid)
                 ELSE HttpGoto([http EXCEPT !.arg[t] = agent], t, "agent_lock")
    /\ UNCHANGED HttpRest

\* m.Lock() of SetHTTPUserAgent
SetAgentLock(t) ==
    /\ HttpAt(t, "agent_lock")
    /\ CanLock
    /\ http' = HttpGoto([http EXCEPT !.wlock = t], t, "agent_store")
    /\ UNCHANGED HttpRest

\* _HTTPUserAgent = agent
SetAgentStore(t) ==
    /\ HttpAt(t, "agent_store")
    /\ http' = HttpGoto([http EXCEPT !.agent = http.arg[t]], t, "agent_unlock")
    /\ UNCHANGED HttpRest

\* m.Unlock(); return nil
SetAgentUnlock(t) ==
    /\ HttpAt(t, "agent_unlock")
    /\ http' = HttpReturn([http EXCEPT !.wlock = 0], t, NoErr)
    /\ UNCHANGED HttpRest

\* m.Lock()
SetLock(t) ==
    /\ HttpAt(t, "set_lock")
    /\ CanLock
    /\ http' = HttpGoto([http EXCEPT !.wlock = t], t, "set_store")
    /\ UNCHANGED HttpRest

\* _HTTPClient = client
SetStore(t) ==
    /\ HttpAt(t, "set_store")
    /\ http' = HttpGoto([http EXCEPT !.client = http.arg[t]], t, "set_unlock")
    /\ UNCHANGED HttpRest

\* m.Unlock(); return nil
SetUnlock(t) ==
    /\ HttpAt(t, "set_unlock")
    /\ http' = HttpReturn([http EXCEPT !.wlock = 0], t, NoErr)
    /\ UNCHANGED HttpRest

\* SendHTTPRequest up to m.RLock(): the method test, NewRequestWithContext
\* and the headers of the caller, which may carry a User-Agent
SendHTTPRequestCall(t) ==
    /\ HttpAt(t, "idle")
    /\ \E r \in {NoErr, "invalid HTTP method specified", "errNewRequest"},
          h \in {"", "own"} :
         http' = IF r = NoErr THEN HttpGoto([http EXCEPT !.ua[t] = h], t, "send_rlock")
                 ELSE HttpReturn(http, t, r)
    /\ UNCHANGED HttpRest

\* m.RLock(), the first one and the one after the default client was stored
SendRLock(t) ==
    /\ HttpAt(t, "send_rlock") \/ HttpAt(t, "send_rlock2")
    /\ CanRLock
    /\ http' = HttpGoto([http EXCEPT !.rlock[t] = TRUE], t,
                        IF HttpAt(t, "send_rlock") THEN "send_agent" ELSE "send_do")
    /\ UNCHANGED HttpRest

\* if _HTTPUserAgent != "" && req.Header.Get("User-Agent") == "" { Add }
SendAgent(t) ==
    /\ HttpAt(t, "send_agent")
    /\ http' = HttpGoto([http EXCEPT !.ua[t] =
                            IF http.agent # "" /\ @ = "" THEN http.agent ELSE @],
                        t, "send_check")
    /\ UNCHANGED HttpRest

\* if _HTTPClient == nil { m.RUnlock() ...
SendCheck(t) ==
    /\ HttpAt(t, "send_check")
    /\ http' = IF http.client = "nil"
                 THEN HttpGoto([http EXCEPT !.rlock[t] = FALSE], t, "send_lock")
               ELSE HttpGoto(http, t, "send_do")
    /\ UNCHANGED HttpRest

\* m.Lock()
SendLock(t) ==
    /\ HttpAt(t, "send_lock")
    /\ CanLock
    /\ http' = HttpGoto([http EXCEPT !.wlock = t], t, "send_store")
    /\ UNCHANGED HttpRest

\* _HTTPClient = NewHTTPClientWithTimeout(defaultTimeout)
SendStore(t) ==
    /\ HttpAt(t, "send_store")
    /\ http' = HttpGoto([http EXCEPT !.client = "default"], t, "send_unlock")
    /\ UNCHANGED HttpRest

\* m.Unlock()
SendUnlock(t) ==
    /\ HttpAt(t, "send_unlock")
    /\ http' = HttpGoto([http EXCEPT !.wlock = 0], t, "send_rlock2")
    /\ UNCHANGED HttpRest

\* resp, err := _HTTPClient.Do(req); m.RUnlock(); the rest holds no lock,
\* and the request is dropped at the return
SendDo(t) ==
    /\ HttpAt(t, "send_do")
    /\ \E r \in {NoErr, "errDo"} :
         http' = HttpReturn([http EXCEPT !.rlock[t] = FALSE, !.ua[t] = ""], t, r)
    /\ UNCHANGED HttpRest

InitHTTP ==
    /\ connCfg = [DNSList |-> NilSlice, PublicDomainList |-> NilSlice, CheckInterval |-> 0]
    /\ m = NilManager
    /\ setupCall = [arg |-> "none", err |-> "none", replaced |-> FALSE]
    /\ probers = <<>>
    /\ pc = [t \in Threads |-> "idle"]
    /\ lconn = [t \in Threads |-> 0]
    /\ pend = [t \in Threads |-> NoErr]
    /\ qret = [op |-> "none", res |-> "none"]
    /\ hist = <<>>
    /\ overlap = FALSE
    /\ crashed = FALSE
    /\ EngineInit({}, {})
    /\ save = SaveIdle
    /\ flag = FlagIdle
    /\ load = LoadIdle
    /\ http = HttpStart
NextHTTP ==
    \E t \in HTTPCallers :
       \/ SetHTTPClientCall(t)
       \/ SetHTTPClientWithTimeoutCall(t)
       \/ SetHTTPUserAgentCall(t)
       \/ SetAgentLock(t)
       \/ SetAgentStore(t)
       \/ SetAgentUnlock(t)
       \/ SetLock(t)
       \/ SetStore(t)
       \/ SetUnlock(t)
       \/ SendHTTPRequestCall(t)
       \/ SendRLock(t)
       \/ SendAgent(t)
       \/ SendCheck(t)
       \/ SendLock(t)
       \/ SendStore(t)
       \/ SendUnlock(t)
       \/ SendDo(t)
SpecHTTP == InitHTTP /\ [][NextHTTP]_vars

\* the step replaces a client a setter installed by the default one
DefaultOverwrites ==
    http.client \in {"custom", "timeout"} /\ http'.client = "default"

\* C40: under every interleaving with SetHTTPClient and
\* SetHTTPClientWithTimeout, SendHTTPRequest never replaces a client those
\* setters installed by the default one, and it holds no lock of the package
\* RWMutex once it has returned.
C40_DefaultClientOnlyWhenNone ==
    /\ [][~DefaultOverwrites]_vars
    /\ [](\A t \in HTTPCallers :
             HttpAt(t, "idle") => (~http.rlock[t] /\ http.wlock # t))

====
